---- MODULE Spec2Model ----
(***************************************************************************)
(* Karaoke subtitle timing engine of ktv-karaoke-tool.                     *)
(*                                                                         *)
(*   fix_ass_with_lyrics.py : duration tags of an existing line are        *)
(*       exploded to per-character durations and re-applied to new lyrics  *)
(*   subtitles.py           : SubtitleGenerator.generate_ass lays out the  *)
(*       "singing" and "preview" events of a sequence of timed segments    *)
(*   main.py                : main runs the stages of the conversion       *)
(*                                                                         *)
(* Text is a sequence of one-character strings.  Absolute times are whole  *)
(* milliseconds; a time t stands for the float nearest to t / 1000.  The   *)
(* segment and word times of the layout are multiples of 1/8 s, which      *)
(* binary floating point represents exactly, so that their differences are *)
(* exact; format_timestamp_ass is computed in float arithmetic.            *)
(***************************************************************************)
EXTENDS Integers, Sequences, FiniteSets, TLC

VARIABLES
    orig_text,      \* fix_ass: text field of a Dialogue line (with {\kNN} tags)
    new_line,       \* fix_ass: replacement lyric line
    fallback_cs,    \* fix_ass: fallback total duration (centiseconds); in main,
                    \*          End - Start of the Dialogue line
    kpc,            \* fix_ass: "idle" | "input" | "parsed" | "totalled" | "built"
                    \*          | "retimed"
    durations,      \* fix_ass: parse_k_blocks(...)[0]
    chars,          \* fix_ass: parse_k_blocks(...)[1]
    total_k,        \* fix_ass: result of extract_total_k (total_cs of main)
    kara_text,      \* fix_ass: result of build_kara_from_lyrics
    segments,       \* subtitles: transcription["segments"]
    apc,            \* subtitles: "idle" | "input" | "done"
    ass_file,       \* subtitles: what generate_ass wrote to output_file
    rec,            \* fix_ass: a Dialogue record (dict of split_dialogue_fields)
    ass_line,       \* fix_ass: a line of an .ass file
    split_out,      \* fix_ass: outcome of split_dialogue_fields(ass_line)
    reline,         \* fix_ass: rebuild_dialogue of the parsed record
    cpc,            \* fix_ass: "idle" | "record" | "serialized" | "parsed"
                    \*          | "reserialized" | "line" | "split"
    ass_path,       \* fix_ass main: the file at args.ass
    lyrics_path,    \* fix_ass main: the file at args.lyrics
    main_out,       \* fix_ass main: how main ended, what it printed, the
                    \*               file it wrote at out_path
    mpc,            \* fix_ass main: "idle" | "waiting" (for the file that
                    \*               generate_ass writes) | "input" | "done"
    seconds,        \* time codec: a time in milliseconds; it stands for the
                    \*             float nearest to seconds / 1000
    stamp,          \* time codec: a timestamp text
    decoded,        \* time codec: outcome of ass_time_to_seconds(stamp)
    tpc,            \* time codec: "idle" | "time" | "formatted" | "roundtrip"
                    \*             | "text" | "decoded"
    ppc,            \* main.py: "idle" | "setup" | the stage to run next | "end"
    started,        \* main.py: the stages started so far, in order
    available,      \* main.py: the local variables of main that hold a
                    \*          value and the files written so far
    ending,         \* main.py: "" | "completed" | "error" | "cancelled"
    exit_status     \* main.py: exit status of the process, -1 while it runs

vars == <<orig_text, new_line, fallback_cs, kpc, durations, chars, total_k,
          kara_text, segments, apc, ass_file, rec, ass_line, split_out, reline, cpc,
          ass_path, lyrics_path, main_out, mpc, seconds, stamp, decoded, tpc,
          ppc, started, available, ending, exit_status>>

pipe_vars == <<ppc, started, available, ending, exit_status>>

time_vars == <<seconds, stamp, decoded, tpc>>

codec_vars == <<rec, ass_line, split_out, reline, cpc>>

main_vars == <<ass_path, lyrics_path, main_out, mpc>>

kara_vars == <<orig_text, new_line, fallback_cs, kpc, durations, chars,
               total_k, kara_text>>

ass_vars == <<segments, apc, ass_file>>

(***************************************************************************)
(* Bounds of the model                                                     *)
(***************************************************************************)
\* number of {\kNN} tags of an original text
MaxBlocks == 2
\* number of characters of a replacement lyric line (before strip)
MaxNew == 3
\* number of segments of a transcription
MaxSegs == 3
\* number of timed words of a segment
MaxWords == 2
\* number of comma-separated pieces after the colon of a line
MaxFields == 12
\* number of lines of an .ass file
MaxDocLines == 3
\* number of lines of a lyrics file
MaxLyrics == 3
\* number of characters of a replacement line for the example text
MaxExample == 5
\* every time from 0 to MaxMs milliseconds is formatted
MaxMs == 1200
\* segments of a transcription whose file is corrected afterwards
MaxChain == 3

(***************************************************************************)
(* Python built-ins used by the code                                       *)
(***************************************************************************)
Max(a, b) == IF a >= b THEN a ELSE b

RECURSIVE SumSeq(_)
SumSeq(s) == IF s = <<>> THEN 0 ELSE Head(s) + SumSeq(Tail(s))

RECURSIVE Concat(_)
Concat(ss) == IF ss = <<>> THEN <<>> ELSE Head(ss) \o Concat(Tail(ss))

\* int(x) of a float: truncation toward zero
TruncDiv(a, b) == IF a >= 0 THEN a \div b ELSE -((-a) \div b)

DigitChars == <<"0", "1", "2", "3", "4", "5", "6", "7", "8", "9">>

IsDigit(c) == \E d \in 1..10 : DigitChars[d] = c

DigitVal(c) == (CHOOSE d \in 1..10 : DigitChars[d] = c) - 1

Whitespace == {" ", "\t", "\n", "\r", "\f"}

\* str.strip()
RECURSIVE lstrip(_)
lstrip(s) ==
    IF s # <<>> /\ Head(s) \in Whitespace THEN lstrip(Tail(s)) ELSE s

RECURSIVE rstrip(_)
rstrip(s) ==
    IF s # <<>> /\ s[Len(s)] \in Whitespace
    THEN rstrip(SubSeq(s, 1, Len(s) - 1)) ELSE s

strip(s) == rstrip(lstrip(s))

\* str(n) / f"{n}" of an integer
RECURSIVE NatStr(_)
NatStr(n) ==
    IF n < 10 THEN <<DigitChars[n + 1]>>
    ELSE NatStr(n \div 10) \o <<DigitChars[(n % 10) + 1]>>

IntStr(n) == IF n < 0 THEN <<"-">> \o NatStr(-n) ELSE NatStr(n)

\* f"{n:02d}" of a non-negative integer
Pad2(n) == IF n < 10 THEN <<"0">> \o NatStr(n) ELSE NatStr(n)

\* int(s) of a string of decimal digits (a regex group (\d+))
RECURSIVE DigitsVal(_)
DigitsVal(s) ==
    IF s = <<>> THEN 0
    ELSE 10 * DigitsVal(SubSeq(s, 1, Len(s) - 1)) + DigitVal(s[Len(s)])

(***************************************************************************)
(* fix_ass_with_lyrics.py : the regular expression \{\\k(\d+)\}            *)
(***************************************************************************)
\* first position >= i that holds no digit (Len(text)+1 when none)
RECURSIVE DigitRunEnd(_, _)
DigitRunEnd(text, i) ==
    IF i <= Len(text) /\ IsDigit(text[i]) THEN DigitRunEnd(text, i + 1) ELSE i

\* the match of the pattern that starts at position i: 0 when there is none,
\* else the position after the closing brace
k_match_end(text, i) ==
    IF i + 4 <= Len(text) /\ text[i] = "{" /\ text[i + 1] = "\\"
       /\ text[i + 2] = "k" /\ IsDigit(text[i + 3])
    THEN LET j == DigitRunEnd(text, i + 3)
         IN IF j <= Len(text) /\ text[j] = "}" THEN j + 1 ELSE 0
    ELSE 0

\* pattern.finditer(text): the non-overlapping matches, left to right;
\* start is the position of "{", end the position after "}", k the group
RECURSIVE k_finditer_from(_, _)
k_finditer_from(text, i) ==
    IF i > Len(text) THEN <<>>
    ELSE LET e == k_match_end(text, i)
         IN IF e = 0 THEN k_finditer_from(text, i + 1)
            ELSE <<[start |-> i, end |-> e,
                    k |-> DigitsVal(SubSeq(text, i + 3, e - 2))]>>
                 \o k_finditer_from(text, e)

k_finditer(text) == k_finditer_from(text, 1)

\* re.findall(r"\{\\k(\d+)\}", text), each group converted by int()
k_findall(text) ==
    LET ms == k_finditer(text) IN [i \in 1..Len(ms) |-> ms[i].k]

(***************************************************************************)
(* fix_ass_with_lyrics.py : duration ledger                                *)
(***************************************************************************)
\* f"{{\\k{d}}}"
k_tag(d) == <<"{", "\\", "k">> \o IntStr(d) \o <<"}">>

\* max(1, int(round(sec * 100))), the argument given in milliseconds;
\* round() is Python's round-half-to-even
seconds_to_centisecs(ms) ==
    LET q == ms \div 10
        r == ms % 10
        rounded == IF r < 5 THEN q
                   ELSE IF r > 5 THEN q + 1
                   ELSE IF q % 2 = 0 THEN q ELSE q + 1
    IN Max(1, rounded)

\* extract_total_k that returns the sum of the tags, whatever it is
extract_total_k_no_fallback(text, fallback) == SumSeq(k_findall(text))

extract_total_k(text, fallback) ==
    LET ks == k_findall(text)
        total == SumSeq(ks)
    IN IF ks = <<>> THEN fallback
       ELSE IF total > 0 THEN total ELSE fallback

\* k_block with the rest of the division dropped (last = per)
k_block_drop_rest(text, matches, i) ==
    LET dur_cs == matches[i].k
        start_content == matches[i].end
        end_content == IF i + 1 <= Len(matches)
                       THEN matches[i + 1].start - 1 ELSE Len(text)
        segment == SubSeq(text, start_content, end_content)
        n == Len(segment)
        per == Max(1, dur_cs \div n)
    IN IF n = 0 THEN [d |-> <<>>, c |-> <<>>]
       ELSE IF n = 1 THEN [d |-> <<Max(1, dur_cs)>>, c |-> segment]
       ELSE [d |-> [j \in 1..n |-> per], c |-> segment]

\* k_block with the rest of the division given to the first character
k_block_rest_first(text, matches, i) ==
    LET dur_cs == matches[i].k
        start_content == matches[i].end
        end_content == IF i + 1 <= Len(matches)
                       THEN matches[i + 1].start - 1 ELSE Len(text)
        segment == SubSeq(text, start_content, end_content)
        n == Len(segment)
        per == Max(1, dur_cs \div n)
        used == per * (n - 1)
        last == Max(1, dur_cs - used)
    IN IF n = 0 THEN [d |-> <<>>, c |-> <<>>]
       ELSE IF n = 1 THEN [d |-> <<Max(1, dur_cs)>>, c |-> segment]
       ELSE [d |-> [j \in 1..n |-> IF j > 1 THEN per ELSE last],
             c |-> segment]

\* one iteration of the loop of parse_k_blocks: what match i appends to
\* durations (d) and to chars (c)
k_block(text, matches, i) ==
    LET dur_cs == matches[i].k
        start_content == matches[i].end
        end_content == IF i + 1 <= Len(matches)
                       THEN matches[i + 1].start - 1 ELSE Len(text)
        segment == SubSeq(text, start_content, end_content)
        n == Len(segment)
        per == Max(1, dur_cs \div n)
        used == per * (n - 1)
        last == Max(1, dur_cs - used)
    IN IF n = 0 THEN [d |-> <<>>, c |-> <<>>]
       ELSE IF n = 1 THEN [d |-> <<Max(1, dur_cs)>>, c |-> segment]
       ELSE [d |-> [j \in 1..n |-> IF j < n THEN per ELSE last],
             c |-> segment]

parse_k_blocks(text) ==
    LET matches == k_finditer(text)
        blocks == [i \in 1..Len(matches) |-> k_block(text, matches, i)]
    IN [durations |-> Concat([i \in 1..Len(matches) |-> blocks[i].d]),
        chars |-> Concat([i \in 1..Len(matches) |-> blocks[i].c])]

\* build_kara_from_lyrics with the rest of the division dropped (last = per)
build_kara_from_lyrics_drop_rest(line, text, fallback) ==
    LET new_chars == strip(line)
        parsed == parse_k_blocks(text)
        durs == parsed.durations
        orig_chars == parsed.chars
        n == Len(new_chars)
        total_cs == Max(1, IF durs # <<>> THEN SumSeq(durs) ELSE fallback)
        per == Max(1, total_cs \div n)
    IN IF new_chars = <<>> THEN <<>>
       ELSE IF durs # <<>> /\ Len(orig_chars) = Len(new_chars)
       THEN Concat([i \in 1..n |-> k_tag(Max(1, durs[i])) \o <<new_chars[i]>>])
       ELSE IF n = 1 THEN k_tag(total_cs) \o <<new_chars[1]>>
       ELSE Concat([i \in 1..n |-> k_tag(per) \o <<new_chars[i]>>])

\* build_kara_from_lyrics without the 1:1 branch: it always redistributes
build_kara_from_lyrics_no_map(line, text, fallback) ==
    LET new_chars == strip(line)
        durs == parse_k_blocks(text).durations
        n == Len(new_chars)
        total_cs == Max(1, IF durs # <<>> THEN SumSeq(durs) ELSE fallback)
        per == Max(1, total_cs \div n)
        used == per * (n - 1)
        last == Max(1, total_cs - used)
    IN IF new_chars = <<>> THEN <<>>
       ELSE IF n = 1 THEN k_tag(total_cs) \o <<new_chars[1]>>
       ELSE Concat([i \in 1..n |->
                k_tag(IF i < n THEN per ELSE last) \o <<new_chars[i]>>])

\* build_kara_from_lyrics that redistributes the fallback, whatever the
\* original durations are (total_cs = fallback_cs)
build_kara_from_lyrics_fallback_total(line, text, fallback) ==
    LET new_chars == strip(line)
        parsed == parse_k_blocks(text)
        durs == parsed.durations
        orig_chars == parsed.chars
        n == Len(new_chars)
        total_cs == Max(1, fallback)
        per == Max(1, total_cs \div n)
        used == per * (n - 1)
        last == Max(1, total_cs - used)
    IN IF new_chars = <<>> THEN <<>>
       ELSE IF durs # <<>> /\ Len(orig_chars) = Len(new_chars)
       THEN Concat([i \in 1..n |-> k_tag(Max(1, durs[i])) \o <<new_chars[i]>>])
       ELSE IF n = 1 THEN k_tag(total_cs) \o <<new_chars[1]>>
       ELSE Concat([i \in 1..n |->
                k_tag(IF i < n THEN per ELSE last) \o <<new_chars[i]>>])

\* build_kara_from_lyrics without the floors max(1, ...)
build_kara_from_lyrics_no_floor(line, text, fallback) ==
    LET new_chars == strip(line)
        parsed == parse_k_blocks(text)
        durs == parsed.durations
        orig_chars == parsed.chars
        n == Len(new_chars)
        total_cs == IF durs # <<>> THEN SumSeq(durs) ELSE fallback
        per == total_cs \div n
        used == per * (n - 1)
        last == total_cs - used
    IN IF new_chars = <<>> THEN <<>>
       ELSE IF durs # <<>> /\ Len(orig_chars) = Len(new_chars)
       THEN Concat([i \in 1..n |-> k_tag(durs[i]) \o <<new_chars[i]>>])
       ELSE IF n = 1 THEN k_tag(total_cs) \o <<new_chars[1]>>
       ELSE Concat([i \in 1..n |->
                k_tag(IF i < n THEN per ELSE last) \o <<new_chars[i]>>])

build_kara_from_lyrics(line, text, fallback) ==
    LET new_chars == strip(line)
        parsed == parse_k_blocks(text)
        durs == parsed.durations
        orig_chars == parsed.chars
        n == Len(new_chars)
        total_cs == Max(1, IF durs # <<>> THEN SumSeq(durs) ELSE fallback)
        per == Max(1, total_cs \div n)
        used == per * (n - 1)
        last == Max(1, total_cs - used)
    IN IF new_chars = <<>> THEN <<>>
       ELSE IF durs # <<>> /\ Len(orig_chars) = Len(new_chars)
       THEN Concat([i \in 1..n |-> k_tag(Max(1, durs[i])) \o <<new_chars[i]>>])
       ELSE IF n = 1 THEN k_tag(total_cs) \o <<new_chars[1]>>
       ELSE Concat([i \in 1..n |->
                k_tag(IF i < n THEN per ELSE last) \o <<new_chars[i]>>])

\* has_k that takes every text that is not empty
has_k_not_empty(text) == text # <<>>

\* r"\k" in text
has_k(text) ==
    \E i \in 1..(Len(text) - 1) : text[i] = "\\" /\ text[i + 1] = "k"

(***************************************************************************)
(* fix_ass_with_lyrics.py : time codec (decoding)                          *)
(***************************************************************************)
\* the first position >= i of s that holds the character sep, 0 when none
RECURSIVE find_from(_, _, _)
find_from(s, sep, i) ==
    IF i > Len(s) THEN 0
    ELSE IF s[i] = sep THEN i ELSE find_from(s, sep, i + 1)

\* s.split(sep) for a one-character separator
RECURSIVE py_split(_, _)
py_split(s, sep) ==
    LET i == find_from(s, sep, 1)
    IN IF i = 0 THEN <<s>>
       ELSE <<SubSeq(s, 1, i - 1)>> \o py_split(SubSeq(s, i + 1, Len(s)), sep)

\* whether int(s) accepts s: optional surrounding whitespace, optional sign,
\* decimal digits with single underscores between digits
py_int_ok(s) ==
    LET t == strip(s)
        b == IF t # <<>> /\ Head(t) \in {"+", "-"} THEN Tail(t) ELSE t
    IN /\ b # <<>>
       /\ \A i \in 1..Len(b) :
            \/ IsDigit(b[i])
            \/ /\ b[i] = "_"
               /\ 1 < i /\ i < Len(b)
               /\ IsDigit(b[i - 1]) /\ IsDigit(b[i + 1])

\* int(s), for an s that int() accepts
py_int(s) ==
    LET t == strip(s)
        neg == t # <<>> /\ Head(t) = "-"
        b == IF t # <<>> /\ Head(t) \in {"+", "-"} THEN Tail(t) ELSE t
        v == DigitsVal(SelectSeq(b, IsDigit))
    IN IF neg THEN -v ELSE v

\* ass_time_to_seconds: ok = FALSE stands for the ValueError it raises;
\* value is the returned number of seconds in centiseconds (seconds * 100)
ass_time_to_seconds(t) ==
    LET dot == py_split(t, ".")
        hms == py_split(dot[1], ":")
    IN IF Len(dot) # 2 \/ Len(hms) # 3 THEN [ok |-> FALSE, value |-> 0]
       ELSE IF ~(py_int_ok(hms[1]) /\ py_int_ok(hms[2]) /\ py_int_ok(hms[3])
                 /\ py_int_ok(dot[2]))
       THEN [ok |-> FALSE, value |-> 0]
       ELSE [ok |-> TRUE,
             value |-> (py_int(hms[1]) * 3600 + py_int(hms[2]) * 60
                        + py_int(hms[3])) * 100 + py_int(dot[2])]

\* body of the pairing loop of main for one singing Dialogue d and its lyric
\* line: the total handed to build_kara_from_lyrics (total_cs) and the new
\* d["text"]
retime_dialogue(d_start, d_end, d_text, line) ==
    LET start_sec == ass_time_to_seconds(d_start).value
        end_sec == ass_time_to_seconds(d_end).value
        fallback == seconds_to_centisecs((end_sec - start_sec) * 10)
        total_cs == extract_total_k(d_text, fallback)
    IN [total_cs |-> total_cs,
        text |-> build_kara_from_lyrics(line, d_text, total_cs)]

(***************************************************************************)
(* fix_ass_with_lyrics.py : record codec of a Dialogue line                *)
(***************************************************************************)
\* s.split(sep, maxsplit) for a one-character separator
RECURSIVE py_split_n(_, _, _)
py_split_n(s, sep, maxsplit) ==
    LET i == find_from(s, sep, 1)
    IN IF maxsplit = 0 \/ i = 0 THEN <<s>>
       ELSE <<SubSeq(s, 1, i - 1)>>
            \o py_split_n(SubSeq(s, i + 1, Len(s)), sep, maxsplit - 1)

\* sep.join(fields)
RECURSIVE py_join(_, _)
py_join(sep, fields) ==
    IF fields = <<>> THEN <<>>
    ELSE IF Len(fields) = 1 THEN fields[1]
    ELSE fields[1] \o <<sep>> \o py_join(sep, Tail(fields))

\* the dict returned by split_dialogue_fields, from the prefix and the ten
\* parts
dialogue_dict(prefix, parts) ==
    [prefix |-> prefix, layer |-> parts[1], start |-> parts[2],
     end |-> parts[3], style |-> parts[4], name |-> parts[5],
     margin_l |-> parts[6], margin_r |-> parts[7], margin_v |-> parts[8],
     effect |-> parts[9], text |-> parts[10]]

EmptyFields == [i \in 1..10 |-> <<>>]

\* split_dialogue_fields that splits at every comma and keeps ten parts
split_dialogue_fields_every_comma(ln) ==
    LET cut == py_split_n(ln, ":", 1)
    IN IF Len(cut) # 2
       THEN [ok |-> FALSE, d |-> dialogue_dict(<<>>, EmptyFields)]
       ELSE LET parts == py_split(strip(cut[2]), ",")
                padded == [i \in 1..10 |->
                              IF i <= Len(parts) THEN parts[i] ELSE <<>>]
            IN [ok |-> TRUE, d |-> dialogue_dict(cut[1], padded)]

\* split_dialogue_fields without rest.strip()
split_dialogue_fields_no_strip(ln) ==
    LET cut == py_split_n(ln, ":", 1)
    IN IF Len(cut) # 2
       THEN [ok |-> FALSE, d |-> dialogue_dict(<<>>, EmptyFields)]
       ELSE LET parts == py_split_n(cut[2], ",", 9)
                padded == [i \in 1..10 |->
                              IF i <= Len(parts) THEN parts[i] ELSE <<>>]
            IN [ok |-> TRUE, d |-> dialogue_dict(cut[1], padded)]

\* split_dialogue_fields: ok = FALSE stands for the ValueError of the
\* unpacking of line.split(":", 1) when the line holds no colon
split_dialogue_fields(ln) ==
    LET cut == py_split_n(ln, ":", 1)
    IN IF Len(cut) # 2
       THEN [ok |-> FALSE, d |-> dialogue_dict(<<>>, EmptyFields)]
       ELSE LET parts == py_split_n(strip(cut[2]), ",", 9)
                padded == [i \in 1..10 |->
                              IF i <= Len(parts) THEN parts[i] ELSE <<>>]
            IN [ok |-> TRUE, d |-> dialogue_dict(cut[1], padded)]

\* the ten fields of a record, in the order of a Dialogue line
dialogue_fields(d) ==
    <<d.layer, d.start, d.end, d.style, d.name, d.margin_l, d.margin_r,
      d.margin_v, d.effect, d.text>>

\* rebuild_dialogue that writes the keyword in place of the prefix it was
\* given
rebuild_dialogue_keyword(d) ==
    <<"D", "i", "a", "l", "o", "g", "u", "e", ":", " ">>
    \o py_join(",", dialogue_fields(d))

rebuild_dialogue(d) ==
    d.prefix \o <<":", " ">> \o py_join(",", dialogue_fields(d))

(***************************************************************************)
(* fix_ass_with_lyrics.py : main, the lyric-correction run                 *)
(***************************************************************************)
\* s.startswith(p)
startswith(s, p) == Len(s) >= Len(p) /\ SubSeq(s, 1, Len(p)) = p

\* is_dialogue_line that takes every line with a colon
is_dialogue_line_any_keyword(ln) == \E i \in 1..Len(ln) : ln[i] = ":"

\* line.lstrip().startswith("Dialogue:")
is_dialogue_line(ln) ==
    startswith(lstrip(ln), <<"D", "i", "a", "l", "o", "g", "u", "e", ":">>)

\* lyrics = [line.strip() for line in f if line.strip()]
read_lyrics(raw) ==
    LET stripped == [i \in 1..Len(raw) |-> strip(raw[i])]
    IN SelectSeq(stripped, LAMBDA l : l # <<>>)

Min(a, b) == IF a <= b THEN a ELSE b

\* what main prints: the warning of line 243, the warning of line 252 with
\* its three numbers, the report of lines 286-289
msg_no_k == [msg |-> "no_k", n_lyr |-> 0, n_sing |-> 0, n_pair |-> 0]

msg_mismatch(n_lyr, n_sing, n_pair) ==
    [msg |-> "mismatch", n_lyr |-> n_lyr, n_sing |-> n_sing, n_pair |-> n_pair]

msg_done == [msg |-> "done", n_lyr |-> 0, n_sing |-> 0, n_pair |-> 0]

NoFile == [exists |-> FALSE, lines |-> <<>>]

\* mismatch_warning that never warns
mismatch_warning_none(n_lyr, n_sing, n_pair) == <<>>

\* lines 251-252: the warning printed when the two counts differ
mismatch_warning(n_lyr, n_sing, n_pair) ==
    IF n_lyr # n_sing THEN <<msg_mismatch(n_lyr, n_sing, n_pair)>> ELSE <<>>

\* preview_lyric that shows the lyric of the same position
preview_lyric_same(lyrics, i) == lyrics[i]

\* line 274: the lyric shown by the i-th preview line (i counted from 1 here,
\* from 0 in the code; lyrics is indexed from 1 here, from 0 in the code)
preview_lyric(lyrics, i) == lyrics[i + 1]

\* steps 2 to 6 of main, for the lines of the .ass file and the lyrics
main_rewrite(lines, lyrics) ==
    LET dialogue_indices ==
            SelectSeq([i \in 1..Len(lines) |-> i],
                      LAMBDA i : is_dialogue_line(lines[i]))
        dialogue_objs ==
            [k \in 1..Len(dialogue_indices) |->
                split_dialogue_fields(lines[dialogue_indices[k]]).d]
        objs == [k \in 1..Len(dialogue_objs) |-> k]
        sing_dialogues ==
            SelectSeq(objs, LAMBDA k : has_k(dialogue_objs[k].text))
        preview_dialogues ==
            SelectSeq(objs, LAMBDA k : ~has_k(dialogue_objs[k].text))
        n_sing == Len(sing_dialogues)
        n_lyr == Len(lyrics)
        n_pair == Min(n_sing, n_lyr)
        warned == mismatch_warning(n_lyr, n_sing, n_pair)
        times_ok(k) == /\ ass_time_to_seconds(dialogue_objs[k].start).ok
                       /\ ass_time_to_seconds(dialogue_objs[k].end).ok
        max_preview == Min(Len(preview_dialogues), Max(0, n_lyr - 1))
        new_text(k) ==
            IF \E i \in 1..n_pair : sing_dialogues[i] = k
            THEN LET i == CHOOSE j \in 1..n_pair : sing_dialogues[j] = k
                     d == dialogue_objs[k]
                 IN retime_dialogue(d.start, d.end, d.text, lyrics[i]).text
            ELSE IF \E i \in 1..max_preview : preview_dialogues[i] = k
            THEN LET i == CHOOSE j \in 1..max_preview :
                              preview_dialogues[j] = k
                 IN preview_lyric(lyrics, i)
            ELSE dialogue_objs[k].text
        new_line_of(i) ==
            IF \E k \in 1..Len(dialogue_indices) : dialogue_indices[k] = i
            THEN LET k == CHOOSE j \in 1..Len(dialogue_indices) :
                              dialogue_indices[j] = i
                 IN rebuild_dialogue(
                        [dialogue_objs[k] EXCEPT !.text = new_text(k)])
                    \o <<"\n">>
            ELSE lines[i]
    IN IF sing_dialogues = <<>>
       THEN [exit |-> "return", printed |-> <<msg_no_k>>, out |-> NoFile]
       ELSE IF \E i \in 1..n_pair : ~times_ok(sing_dialogues[i])
       THEN [exit |-> "ValueError", printed |-> warned, out |-> NoFile]
       ELSE [exit |-> "return", printed |-> warned \o <<msg_done>>,
             out |-> [exists |-> TRUE,
                      lines |-> [i \in 1..Len(lines) |-> new_line_of(i)]]]

\* main: the files at args.ass and args.lyrics; exit is "return" or the
\* exception raised, out the file written at out_path
main(ass, lyr) ==
    IF ~ass.exists \/ ~lyr.exists
    THEN [exit |-> "FileNotFoundError", printed |-> <<>>, out |-> NoFile]
    ELSE IF read_lyrics(lyr.lines) = <<>>
    THEN [exit |-> "ValueError", printed |-> <<>>, out |-> NoFile]
    ELSE main_rewrite(ass.lines, read_lyrics(lyr.lines))

(***************************************************************************)
(* IEEE-754 double arithmetic of format_timestamp_ass.  A natural number   *)
(* wider than a machine integer is a sequence of limbs base 2^15, least    *)
(* significant limb first.                                                 *)
(***************************************************************************)
\* a * m + c of a limb sequence a, for 0 <= m, c < 2^15
RECURSIVE BigMulAdd(_, _, _)
BigMulAdd(a, m, c) ==
    IF a = <<>> THEN (IF c = 0 THEN <<>> ELSE <<c>>)
    ELSE LET p == Head(a) * m + c
         IN <<p % 32768>> \o BigMulAdd(Tail(a), m, p \div 32768)

\* quotient q and remainder r of a limb sequence a by d, for 0 < d < 2^15
RECURSIVE BigDivMod(_, _)
BigDivMod(a, d) ==
    IF a = <<>> THEN [q |-> <<>>, r |-> 0]
    ELSE LET hi == BigDivMod(Tail(a), d)
             cur == hi.r * 32768 + Head(a)
         IN [q |-> <<cur \div d>> \o hi.q, r |-> cur % d]

\* a / d rounded to the nearest integer, ties to even (the rounding of a
\* float operation)
BigDivRound(a, d) ==
    LET dm == BigDivMod(a, d)
        up == \/ 2 * dm.r > d
              \/ 2 * dm.r = d /\ dm.q # <<>> /\ dm.q[1] % 2 = 1
    IN IF up THEN BigMulAdd(dm.q, 1, 1) ELSE dm.q

\* a * 2^s
BigShl(a, s) == [i \in 1..(s \div 15) |-> 0] \o BigMulAdd(a, 2^(s % 15), 0)

\* a \div 2^s
BigShr(a, s) == BigDivMod(SubSeq(a, (s \div 15) + 1, Len(a)), 2^(s % 15)).q

\* number of binary digits of n
RECURSIVE BitLen(_)
BitLen(n) == IF n = 0 THEN 0 ELSE 1 + BitLen(n \div 2)

RECURSIVE BigBits(_)
BigBits(a) ==
    IF a = <<>> THEN 0
    ELSE IF a[Len(a)] = 0 THEN BigBits(SubSeq(a, 1, Len(a) - 1))
    ELSE 15 * (Len(a) - 1) + BitLen(a[Len(a)])

\* the number a limb sequence stands for
RECURSIVE BigVal(_)
BigVal(a) == IF a = <<>> THEN 0 ELSE Head(a) + 32768 * BigVal(Tail(a))

\* the binary exponent of the float n / d: the e with 2^e <= n / d < 2^(e+1)
RECURSIVE Log2Floor(_, _)
Log2Floor(n, d) ==
    IF n >= 2 * d THEN 1 + Log2Floor(n, 2 * d)
    ELSE IF n < d THEN Log2Floor(2 * n, d) - 1
    ELSE 0

\* int((seconds % 1) * 100) for the float seconds nearest to ms / 1000:
\* seconds = q / 2^s with a 53-bit q; seconds % 1 is exact; the product by
\* 100 is rounded to 53 bits; int() truncates
frac_centisecs(ms) ==
    IF ms % 1000 = 0 THEN 0
    ELSE LET s == 52 - Log2Floor(ms, 1000)
             frac == BigDivRound(BigShl(<<ms % 1000>>, s), 1000)
             prod == BigMulAdd(frac, 100, 0)
             t == Max(0, BigBits(prod) - 53)
             rounded == BigShl(BigDivRound(prod, 2^t), t)
         IN BigVal(BigShr(rounded, s))

(***************************************************************************)
(* subtitles.py : SubtitleGenerator                                        *)
(***************************************************************************)
\* centiseconds given to each character of a segment without word timing
DefaultCharCs == 30

\* format_timestamp_ass(seconds), the argument given in milliseconds
format_timestamp_ass(ms) ==
    LET hours == ms \div 3600000
        minutes == (ms % 3600000) \div 60000
        secs == (ms % 60000) \div 1000
        centisecs == frac_centisecs(ms)
    IN NatStr(hours) \o <<":">> \o Pad2(minutes) \o <<":">> \o Pad2(secs)
       \o <<".">> \o Pad2(centisecs)

\* max(1, int((w["end"] - w["start"]) * 100)) of one word
word_dur_cs(w) == Max(1, TruncDiv(w.end - w.start, 10))

\* build_karaoke_text with the words' durations rounded to the nearest
\* centisecond instead of truncated
build_karaoke_text_rounded(words, fallback_text) ==
    LET text == strip(fallback_text)
        word_cs == SumSeq([i \in 1..Len(words) |->
                      seconds_to_centisecs(words[i].end - words[i].start)])
        total_cs == IF word_cs <= 0 THEN DefaultCharCs * Len(text) ELSE word_cs
        n == Len(text)
        per == Max(1, total_cs \div n)
        used == per * (n - 1)
        last == Max(1, total_cs - used)
    IN IF text = <<>> THEN <<>>
       ELSE IF n = 1 THEN k_tag(total_cs) \o <<text[1]>>
       ELSE Concat([i \in 1..n |->
                k_tag(IF i < n THEN per ELSE last) \o <<text[i]>>])

\* build_karaoke_text that returns the text untagged when there are no words
build_karaoke_text_plain(words, fallback_text) ==
    LET text == strip(fallback_text)
        total_cs == SumSeq([i \in 1..Len(words) |-> word_dur_cs(words[i])])
        n == Len(text)
        per == Max(1, total_cs \div n)
        used == per * (n - 1)
        last == Max(1, total_cs - used)
    IN IF text = <<>> THEN <<>>
       ELSE IF words = <<>> THEN text
       ELSE IF n = 1 THEN k_tag(total_cs) \o <<text[1]>>
       ELSE Concat([i \in 1..n |->
                k_tag(IF i < n THEN per ELSE last) \o <<text[i]>>])

\* the nested function build_karaoke_text of generate_ass
build_karaoke_text(words, fallback_text) ==
    LET text == strip(fallback_text)
        word_cs == SumSeq([i \in 1..Len(words) |-> word_dur_cs(words[i])])
        total_cs == IF word_cs <= 0 THEN DefaultCharCs * Len(text) ELSE word_cs
        n == Len(text)
        per == Max(1, total_cs \div n)
        used == per * (n - 1)
        last == Max(1, total_cs - used)
    IN IF text = <<>> THEN <<>>
       ELSE IF n = 1 THEN k_tag(total_cs) \o <<text[1]>>
       ELSE Concat([i \in 1..n |->
                k_tag(IF i < n THEN per ELSE last) \o <<text[i]>>])

\* f"Dialogue: 0,{start},{end},{style},,0,0,0,,{text}\n" as its fields
dialogue(start_ms, end_ms, style, text) ==
    [layer |-> "0", start |-> format_timestamp_ass(start_ms),
     end |-> format_timestamp_ass(end_ms), style |-> style, name |-> "",
     margin_l |-> "0", margin_r |-> "0", margin_v |-> "0", effect |-> "",
     text |-> text]

\* sing_events without the check of the span (end <= start)
sing_events_no_span_check(segs, p) ==
    LET seg == segs[p]
        text == strip(seg.text)
        style == IF (p - 1) % 2 = 0 THEN "SingLeft" ELSE "SingRight"
    IN IF text = <<>> THEN <<>>
       ELSE <<dialogue(seg.start, seg.end, style,
                       build_karaoke_text(seg.words, text))>>

\* first loop of generate_ass, iteration idx = p - 1: the events it writes
sing_events(segs, p) ==
    LET seg == segs[p]
        text == strip(seg.text)
        style == IF (p - 1) % 2 = 0 THEN "SingLeft" ELSE "SingRight"
    IN IF text = <<>> \/ seg.end <= seg.start THEN <<>>
       ELSE <<dialogue(seg.start, seg.end, style,
                       build_karaoke_text(seg.words, text))>>

\* preview_events with a preview that ends when the next segment starts
preview_events_next_start(segs, p) ==
    LET curr_seg == segs[p]
        next_seg == segs[p + 1]
        preview_start == curr_seg.start
        preview_end == next_seg.start
        text == strip(next_seg.text)
        style_next == IF p % 2 = 0 THEN "NextLeft" ELSE "NextRight"
    IN IF text = <<>> \/ preview_end <= preview_start THEN <<>>
       ELSE <<dialogue(preview_start, preview_end, style_next, text)>>

\* preview_events with a preview that ends when the current segment ends
preview_events_curr_end(segs, p) ==
    LET curr_seg == segs[p]
        next_seg == segs[p + 1]
        preview_start == curr_seg.start
        preview_end == curr_seg.end
        text == strip(next_seg.text)
        style_next == IF p % 2 = 0 THEN "NextLeft" ELSE "NextRight"
    IN IF text = <<>> \/ preview_end <= preview_start THEN <<>>
       ELSE <<dialogue(preview_start, preview_end, style_next, text)>>

\* second loop of generate_ass, iteration i = p - 1: the events it writes
preview_events(segs, p) ==
    LET curr_seg == segs[p]
        next_seg == segs[p + 1]
        preview_start == curr_seg.start
        preview_end == Max(curr_seg.end, next_seg.start)
        text == strip(next_seg.text)
        style_next == IF p % 2 = 0 THEN "NextLeft" ELSE "NextRight"
    IN IF text = <<>> \/ preview_end <= preview_start THEN <<>>
       ELSE <<dialogue(preview_start, preview_end, style_next, text)>>

\* generate_ass that writes the header before it looks at the segments
generate_ass_header_first(segs) ==
    [header |-> TRUE,
     events |->
         Concat([p \in 1..Len(segs) |-> sing_events(segs, p)])
         \o Concat([p \in 1..(Len(segs) - 1) |-> preview_events(segs, p)])]

\* generate_ass: the file it writes, header = whether ass_header was written
generate_ass(segs) ==
    IF segs = <<>> THEN [header |-> FALSE, events |-> <<>>]
    ELSE [header |-> TRUE,
          events |->
              Concat([p \in 1..Len(segs) |-> sing_events(segs, p)])
              \o Concat([p \in 1..(Len(segs) - 1) |-> preview_events(segs, p)])]

\* the text ass_header of generate_ass, line by line (a character outside
\* ASCII, in the comments of the styles, is written #)
ass_header ==
    <<
      <<"[", "S", "c", "r", "i", "p", "t", " ", "I", "n", "f", "o", "]",
        "\n">>,
      <<"T", "i", "t", "l", "e", ":", " ", "K", "T", "V", " ", "K", "a", "r",
        "a", "o", "k", "e", " ", "S", "u", "b", "t", "i", "t", "l", "e", "s",
        "\n">>,
      <<"S", "c", "r", "i", "p", "t", "T", "y", "p", "e", ":", " ", "v", "4",
        ".", "0", "0", "+", "\n">>,
      <<"W", "r", "a", "p", "S", "t", "y", "l", "e", ":", " ", "0", "\n">>,
      <<"P", "l", "a", "y", "R", "e", "s", "X", ":", " ", "1", "2", "8", "0",
        "\n">>,
      <<"P", "l", "a", "y", "R", "e", "s", "Y", ":", " ", "7", "2", "0",
        "\n">>,
      <<"S", "c", "a", "l", "e", "d", "B", "o", "r", "d", "e", "r", "A", "n",
        "d", "S", "h", "a", "d", "o", "w", ":", " ", "y", "e", "s", "\n">>,
      <<"\n">>,
      <<"[", "V", "4", "+", " ", "S", "t", "y", "l", "e", "s", "]", "\n">>,
      <<"F", "o", "r", "m", "a", "t", ":", " ", "N", "a", "m", "e", ",", " ",
        "F", "o", "n", "t", "n", "a", "m", "e", ",", " ", "F", "o", "n", "t",
        "s", "i", "z", "e", ",", " ", "P", "r", "i", "m", "a", "r", "y", "C",
        "o", "l", "o", "u", "r", ",", " ", "S", "e", "c", "o", "n", "d", "a",
        "r", "y", "C", "o", "l", "o", "u", "r", ",", " ", "O", "u", "t", "l",
        "i", "n", "e", "C", "o", "l", "o", "u", "r", ",", " ", "B", "a", "c",
        "k", "C", "o", "l", "o", "u", "r", ",", " ", "B", "o", "l", "d", ",",
        " ", "I", "t", "a", "l", "i", "c", ",", " ", "U", "n", "d", "e", "r",
        "l", "i", "n", "e", ",", " ", "S", "t", "r", "i", "k", "e", "O", "u",
        "t", ",", " ", "S", "c", "a", "l", "e", "X", ",", " ", "S", "c", "a",
        "l", "e", "Y", ",", " ", "S", "p", "a", "c", "i", "n", "g", ",", " ",
        "A", "n", "g", "l", "e", ",", " ", "B", "o", "r", "d", "e", "r", "S",
        "t", "y", "l", "e", ",", " ", "O", "u", "t", "l", "i", "n", "e", ",",
        " ", "S", "h", "a", "d", "o", "w", ",", " ", "A", "l", "i", "g", "n",
        "m", "e", "n", "t", ",", " ", "M", "a", "r", "g", "i", "n", "L", ",",
        " ", "M", "a", "r", "g", "i", "n", "R", ",", " ", "M", "a", "r", "g",
        "i", "n", "V", ",", " ", "E", "n", "c", "o", "d", "i", "n", "g",
        "\n">>,
      <<";", " ", "#", "#", "#", "#", "#", "#", "#", "#", "#", "#", "#",
        "\n">>,
      <<"S", "t", "y", "l", "e", ":", " ", "S", "i", "n", "g", "L", "e", "f",
        "t", ",", "A", "r", "i", "a", "l", ",", "4", "8", ",", "&", "H", "0",
        "0", "F", "F", "0", "0", "0", "0", ",", "&", "H", "0", "0", "F", "F",
        "F", "F", "F", "F", ",", "&", "H", "0", "0", "0", "0", "0", "0", "0",
        "0", ",", "&", "H", "6", "4", "0", "0", "0", "0", "0", "0", ",", "-",
        "1", ",", "0", ",", "0", ",", "0", ",", "1", "0", "0", ",", "1", "0",
        "0", ",", "0", ",", "0", ",", "1", ",", "3", ",", "0", ",", "1", ",",
        "2", "6", "0", ",", "1", "0", ",", "9", "0", ",", "1", "\n">>,
      <<";", " ", "#", "#", "#", "#", "#", "#", "#", "#", "#", "#", "#",
        "\n">>,
      <<"S", "t", "y", "l", "e", ":", " ", "S", "i", "n", "g", "R", "i", "g",
        "h", "t", ",", "A", "r", "i", "a", "l", ",", "4", "8", ",", "&", "H",
        "0", "0", "F", "F", "0", "0", "0", "0", ",", "&", "H", "0", "0", "F",
        "F", "F", "F", "F", "F", ",", "&", "H", "0", "0", "0", "0", "0", "0",
        "0", "0", ",", "&", "H", "6", "4", "0", "0", "0", "0", "0", "0", ",",
        "-", "1", ",", "0", ",", "0", ",", "0", ",", "1", "0", "0", ",", "1",
        "0", "0", ",", "0", ",", "0", ",", "1", ",", "3", ",", "0", ",", "3",
        ",", "2", "6", "0", ",", "2", "6", "0", ",", "5", "0", ",", "1",
        "\n">>,
      <<";", " ", "#", "#", "#", "#", "#", "#", "#", "#", "#", "#", "#", "#",
        "\n">>,
      <<"S", "t", "y", "l", "e", ":", " ", "N", "e", "x", "t", "L", "e", "f",
        "t", ",", "A", "r", "i", "a", "l", ",", "4", "8", ",", "&", "H", "0",
        "0", "F", "F", "F", "F", "F", "F", ",", "&", "H", "0", "0", "F", "F",
        "F", "F", "F", "F", ",", "&", "H", "0", "0", "0", "0", "0", "0", "0",
        "0", ",", "&", "H", "6", "4", "0", "0", "0", "0", "0", "0", ",", "-",
        "1", ",", "0", ",", "0", ",", "0", ",", "1", "0", "0", ",", "1", "0",
        "0", ",", "0", ",", "0", ",", "1", ",", "3", ",", "0", ",", "1", ",",
        "2", "6", "0", ",", "1", "0", ",", "9", "0", ",", "1", "\n">>,
      <<";", " ", "#", "#", "#", "#", "#", "#", "#", "#", "#", "#", "#", "#",
        "\n">>,
      <<"S", "t", "y", "l", "e", ":", " ", "N", "e", "x", "t", "R", "i", "g",
        "h", "t", ",", "A", "r", "i", "a", "l", ",", "4", "8", ",", "&", "H",
        "0", "0", "F", "F", "F", "F", "F", "F", ",", "&", "H", "0", "0", "F",
        "F", "F", "F", "F", "F", ",", "&", "H", "0", "0", "0", "0", "0", "0",
        "0", "0", ",", "&", "H", "6", "4", "0", "0", "0", "0", "0", "0", ",",
        "-", "1", ",", "0", ",", "0", ",", "0", ",", "1", "0", "0", ",", "1",
        "0", "0", ",", "0", ",", "0", ",", "1", ",", "3", ",", "0", ",", "3",
        ",", "2", "6", "0", ",", "2", "6", "0", ",", "5", "0", ",", "1",
        "\n">>,
      <<"\n">>,
      <<"[", "E", "v", "e", "n", "t", "s", "]", "\n">>,
      <<"F", "o", "r", "m", "a", "t", ":", " ", "L", "a", "y", "e", "r", ",",
        " ", "S", "t", "a", "r", "t", ",", " ", "E", "n", "d", ",", " ", "S",
        "t", "y", "l", "e", ",", " ", "N", "a", "m", "e", ",", " ", "M", "a",
        "r", "g", "i", "n", "L", ",", " ", "M", "a", "r", "g", "i", "n", "R",
        ",", " ", "M", "a", "r", "g", "i", "n", "V", ",", " ", "E", "f", "f",
        "e", "c", "t", ",", " ", "T", "e", "x", "t", "\n">>
    >>

\* the name of a style, character by character
style_chars(style) ==
    CASE style = "SingLeft" -> <<"S", "i", "n", "g", "L", "e", "f", "t">>
      [] style = "SingRight" ->
             <<"S", "i", "n", "g", "R", "i", "g", "h", "t">>
      [] style = "NextLeft" -> <<"N", "e", "x", "t", "L", "e", "f", "t">>
      [] style = "NextRight" ->
             <<"N", "e", "x", "t", "R", "i", "g", "h", "t">>

\* f"Dialogue: 0,{start},{end},{style},,0,0,0,,{text}\n": what one f.write
\* of an event appends to the file
dialogue_write(ev) ==
    <<"D", "i", "a", "l", "o", "g", "u", "e", ":", " ", "0", ",">>
    \o ev.start \o <<",">> \o ev.end \o <<",">> \o style_chars(ev.style)
    \o <<",", ",", "0", ",", "0", ",", "0", ",", ",">>
    \o ev.text \o <<"\n">>

\* f.readlines(): the lines of a text, each with its line break
RECURSIVE readlines(_)
readlines(s) ==
    LET i == find_from(s, "\n", 1)
    IN IF s = <<>> THEN <<>>
       ELSE IF i = 0 THEN <<s>>
       ELSE <<SubSeq(s, 1, i)>> \o readlines(SubSeq(s, i + 1, Len(s)))

\* the lines of the file that generate_ass wrote
written_lines(f) ==
    IF ~f.header THEN <<>>
    ELSE ass_header
         \o readlines(Concat([k \in 1..Len(f.events) |->
                                  dialogue_write(f.events[k])]))

(***************************************************************************)
(* main.py : main, the conversion pipeline                                 *)
(***************************************************************************)
\* the calls of steps 2 to 7, in the order of the text of main
Stages == <<"get_media", "extract_audio", "separate_vocals",
            "create_ktv_stereo_mix", "generate_subtitles",
            "create_video_with_audio">>

\* the local variables and files that the call of a stage reads
StageArgs(s) ==
    CASE s = "get_media" -> {"input_type", "input_value"}
      [] s = "extract_audio" -> {"media_file"}
      [] s = "separate_vocals" -> {"audio_file", "config"}
      [] s = "create_ktv_stereo_mix" ->
             {"vocals_file", "instrumental_file", "title", "temp_folder"}
      [] s = "generate_subtitles" ->
             {"vocals_file", "title", "output_path", "config"}
      [] s = "create_video_with_audio" ->
             {"media_file", "ktv_mix_file", "title", "output_path"}

\* the local variables assigned and the files written when the stage has
\* returned ("ktv_mix_file" and "final_output": the files of these names)
StageResults(s) ==
    CASE s = "get_media" -> {"media_file", "title"}
      [] s = "extract_audio" -> {"audio_file"}
      [] s = "separate_vocals" -> {"vocals_file", "instrumental_file"}
      [] s = "create_ktv_stereo_mix" -> {"ktv_mix_file"}
      [] s = "generate_subtitles" -> {"subtitle_files"}
      [] s = "create_video_with_audio" -> {"final_output"}

\* the local variables assigned before step 2: lines 126-140
SetupResults ==
    {"config", "input_type", "input_value", "output_folder", "output_path",
     "temp_folder"}

\* how a call ends: it returns, or it raises an Exception or the
\* KeyboardInterrupt of the user
Outcomes == {"returns", "Exception", "KeyboardInterrupt"}

\* the except clauses of main, lines 255-262, and the normal end
ending_of(outcome) ==
    CASE outcome = "KeyboardInterrupt" -> "cancelled"
      [] outcome = "Exception" -> "error"
      [] outcome = "returns" -> "completed"

exit_status_of(outcome) == IF outcome = "Exception" THEN 1 ELSE 0

\* next_position in which an exception of a stage is passed over
next_position_continue(k, outcome) ==
    IF k = Len(Stages) THEN "end" ELSE Stages[k + 1]

\* where main goes on after the k-th stage (k = 0: after the set-up)
next_position(k, outcome) ==
    IF outcome # "returns" \/ k = Len(Stages) THEN "end" ELSE Stages[k + 1]

(***************************************************************************)
(* Inputs of the duration ledger                                           *)
(***************************************************************************)
\* durations written in the tags of an original line
TagDurs == {0, 1, 3, 10}

\* the characters that follow a tag, up to the next tag
Runs == {<<>>, <<"a">>, <<"a", "b">>}

\* what precedes the first tag: nothing, or a brace group that is no tag
Prefixes == {<<>>, <<"{", "\\", "k", "}">>}

KBlocks == [k : TagDurs, run : Runs]

KBlockText(b) == k_tag(b.k) \o b.run

\* the texts of n tags, each followed by its run
TaggedTexts(n) ==
    { Concat([i \in 1..n |-> KBlockText(bs[i])]) : bs \in [1..n -> KBlocks] }

\* the texts of up to MaxBlocks tags, and those of at most one tag after a
\* brace group that is no tag
OrigTexts ==
    UNION { TaggedTexts(n) : n \in 0..MaxBlocks }
    \cup { p \o t : p \in Prefixes, t \in TaggedTexts(0) \cup TaggedTexts(1) }

NewChars == {"x", " "}

\* the lines of up to MaxNew characters: n characters that are not blank,
\* with or without a blank before and after them; and a line with a blank
\* inside
NewLines ==
    { l \in { [i \in 1..(a + n + b) |->
                  IF a < i /\ i <= a + n THEN "x" ELSE " "] :
                  a \in 0..1, b \in 0..1, n \in 0..MaxNew } :
          Len(l) <= MaxNew }
    \cup { <<"x", " ", "x">> }

Fallbacks == {-3, 0, 5}

\* the fallbacks tried with a text: all of them with a text of at most one
\* tag, the positive one with the others
FallbacksOf(text) ==
    IF Len(k_finditer(text)) <= 1 THEN Fallbacks
    ELSE { f \in Fallbacks : f > 0 }

\* a tagged text cut from the one of the docstring of parse_k_blocks: tags
\* 139, 56, 52 over runs of 1, 2 and 1 characters (W, D, Y, K stand for them)
ExampleText ==
    k_tag(139) \o <<"W">> \o k_tag(56) \o <<"D", "Y">> \o k_tag(52) \o <<"K">>

ExampleLines == UNION { [1..n -> NewChars] : n \in 0..MaxExample }

(***************************************************************************)
(* Inputs of generate_ass                                                  *)
(***************************************************************************)
\* start of a segment after the start of the previous one (milliseconds)
Deltas == {0, 125, 250}

\* end - start of a segment (milliseconds)
Spans == {0, 125, 250}

\* text of a segment, and whether it carries word timing: a blank text, and
\* a text of two characters after a blank (the segments without word timing
\* are those of WordLists)
Contents == { [text |-> <<" ">>, timed |-> FALSE],
              [text |-> <<" ", "a", "b">>, timed |-> TRUE] }

Shapes == [delta : Deltas, span : Spans, content : Contents]

ShapeSeqs ==
    UNION { { sh \in [1..n -> Shapes] : n >= 1 => sh[1].delta = 0 } :
            n \in 0..MaxSegs }

SegStart(sh, i) == SumSeq([j \in 1..i |-> sh[j].delta])

\* the segments of a sequence of shapes; a timed segment has one word that
\* spans it
MakeSegs(sh) ==
    [i \in 1..Len(sh) |->
        LET s == SegStart(sh, i)
            e == s + sh[i].span
        IN [start |-> s, end |-> e, text |-> sh[i].content.text,
            words |-> IF sh[i].content.timed
                      THEN <<[start |-> s, end |-> e,
                              word |-> sh[i].content.text]>>
                      ELSE <<>>]]

\* word timings (start, end) of the words of one segment
WordSpans == { <<0, 0>>, <<0, 125>>, <<125, 500>>, <<250, 125>> }

\* texts of the segment; the last one holds a line break
WordTexts == { <<"a">>, <<"a", "b", " ">>, <<"a", "b", "c">>,
               <<"a", "\n", "b">> }

WordLists ==
    UNION { { [i \in 1..n |-> [start |-> ws[i][1], end |-> ws[i][2],
                               word |-> <<"w">>]] :
                  ws \in [1..n -> WordSpans] } :
            n \in 0..MaxWords }

(***************************************************************************)
(* Inputs of the record codec                                              *)
(***************************************************************************)
Keyword == <<"D", "i", "a", "l", "o", "g", "u", "e">>

\* prefix of a record: the keyword, the keyword of an indented line, another
\* keyword, and a prefix that holds the separator
RecPrefixes == { Keyword, <<" ">> \o Keyword,
                 <<"C", "o", "m", "m", "e", "n", "t">>, <<"a", ":", "b">> }

RecLayers == { <<"0">>, <<>>, <<" ", "0">> }

RecNames == { <<>>, <<"n", ",", "m">> }

RecEffects == { <<>>, <<"e", " ">> }

RecTexts == { <<>>, <<" ">>, <<"a">>, <<"a", " ">>, <<"a", ",", "b">>,
              <<",">>, k_tag(3) \o <<"a", "\n">> }

Records ==
    { dialogue_dict(p, <<l, format_timestamp_ass(0), format_timestamp_ass(250),
                         <<"S">>, n, <<"0">>, <<"0">>, <<"0">>, e, t>>) :
          p \in RecPrefixes, l \in RecLayers, n \in RecNames,
          e \in RecEffects, t \in RecTexts }

\* the i-th piece of a line of pieces
FieldChars == <<"a", "b", "c", "d", "e", "f", "g", "h", "i", "j", "k", "l",
                "m", "n", "o", "p">>

\* the n pieces of a line, the one at position blank left empty
LinePieces(n, blank) ==
    [i \in 1..n |-> IF i = blank THEN <<>> ELSE <<FieldChars[i]>>]

\* what stands between the keyword and the pieces: the colon of a Dialogue
\* line, with or without a blank, or no colon at all
LineSeps == { <<":", " ">>, <<":">>, <<" ">> }

LineEnds == { <<"\n">>, <<" ", "\n">> }

\* how a line starts: the keyword of an event, or another keyword
LineKeywords == { Keyword, <<"C", "o", "m", "m", "e", "n", "t">> }

Lines ==
    { kw \o sep \o py_join(",", LinePieces(nb[1], nb[2])) \o end :
          kw \in LineKeywords, sep \in LineSeps, end \in LineEnds,
          nb \in { x \in (0..MaxFields) \X (0..MaxFields) : x[2] <= x[1] } }

(***************************************************************************)
(* Inputs of main                                                          *)
(***************************************************************************)
\* a line of an .ass file from its prefix, its Start and End (milliseconds)
\* and its text
AssLine(prefix, start_ms, end_ms, text) ==
    rebuild_dialogue(
        dialogue_dict(prefix,
            <<<<"0">>, format_timestamp_ass(start_ms),
              format_timestamp_ass(end_ms), <<"S">>, <<>>, <<"0">>, <<"0">>,
              <<"0">>, <<>>, text>>))
    \o <<"\n">>

\* a line that is no Dialogue line, although its text holds a tag
CommentLine ==
    AssLine(<<"C", "o", "m", "m", "e", "n", "t">>, 0, 100,
            k_tag(5) \o <<"c">>)

\* a singing line of two tags, 3 and 7 centiseconds
SingLine == AssLine(Keyword, 0, 100, k_tag(3) \o <<"a">> \o k_tag(7) \o <<"b">>)

\* a line of 250 ms whose text holds \k in a tag that is no {\kNN} tag
MarkedLine ==
    AssLine(Keyword, 0, 250, <<"{", "\\", "k", "f", "5", "}", "z">>)

\* a singing line whose Start is no timestamp
BadTimeLine ==
    rebuild_dialogue(
        dialogue_dict(Keyword,
            <<<<"0">>, <<"x">>, format_timestamp_ass(100), <<"S">>, <<>>,
              <<"0">>, <<"0">>, <<"0">>, <<>>, k_tag(4) \o <<"d">>>>))
    \o <<"\n">>

\* an indented preview line, a comma in its text
PreviewLine == <<" ">> \o AssLine(Keyword, 0, 100, <<"a", ",", "b">>)

\* a Dialogue line of one field
ShortLine == Keyword \o <<":", " ", "0", "\n">>

DocLines == { CommentLine, SingLine, MarkedLine, BadTimeLine, PreviewLine,
              ShortLine }

AssFiles ==
    { NoFile }
    \cup { [exists |-> TRUE, lines |-> ls] :
               ls \in UNION { [1..n -> DocLines] : n \in 0..MaxDocLines } }

\* the i-th lyric of a lyrics file: lyrics that follow each other differ,
\* every second one has white space around it
LyricLine(i) ==
    IF i % 2 = 1 THEN <<"p", "\n">> ELSE <<" ", "q", "r", " ", "\n">>

BlankLine == <<" ", "\n">>

\* n lyrics, without a blank line or with one after the first lyric
LyricsLines(n, blank) ==
    LET ls == [i \in 1..n |-> LyricLine(i)]
    IN IF ~blank THEN ls
       ELSE IF n = 0 THEN <<BlankLine>>
       ELSE <<ls[1], BlankLine>> \o SubSeq(ls, 2, n)

LyricsFiles ==
    { NoFile }
    \cup { [exists |-> TRUE, lines |-> LyricsLines(n, blank)] :
               n \in 0..MaxLyrics, blank \in BOOLEAN }

(***************************************************************************)
(* Inputs of the time codec                                                *)
(***************************************************************************)
\* times to format: every whole millisecond up to MaxMs, and times around
\* the turn of a minute and of an hour
Times ==
    (0..MaxMs) \cup
    { h * 3600000 + m * 60000 + s * 1000 + f :
        h \in {0, 1, 10}, m \in {0, 59}, s \in {0, 59}, f \in {0, 290, 995} }

\* timestamp texts to decode: hours, minutes, seconds and fraction, each
\* well-formed or not, with or without the separators
StampHours == { <<"0">>, <<"1", "2">>, <<>>, <<"-", "1">> }

StampSixties == { <<"0", "0">>, <<"5", "9">>, <<"7">>, <<"a", "0">> }

StampFractions ==
    { <<"0", "0">>, <<"2", "8">>, <<"5">>, <<"1", "2", "3">>, <<>> }

StampTexts ==
    { h \o c1 \o m \o c2 \o s \o d \o f :
        h \in StampHours, m \in StampSixties, s \in StampSixties,
        f \in StampFractions,
        c1 \in { <<":">>, <<>> }, c2 \in { <<":">> }, d \in { <<".">>, <<>> } }

(***************************************************************************)
(* Initial states and operations                                          *)
(***************************************************************************)
CodecIdle ==
    /\ rec = dialogue_dict(<<>>, EmptyFields)
    /\ ass_line = <<>>
    /\ split_out = [ok |-> FALSE, d |-> dialogue_dict(<<>>, EmptyFields)]
    /\ reline = <<>>
    /\ cpc = "idle"

MainIdleOut == [exit |-> "", printed |-> <<>>, out |-> NoFile]

MainIdle ==
    /\ ass_path = NoFile /\ lyrics_path = NoFile
    /\ main_out = MainIdleOut /\ mpc = "idle"

TimeIdle ==
    /\ seconds = 0 /\ stamp = <<>>
    /\ decoded = [ok |-> FALSE, value |-> 0] /\ tpc = "idle"

PipeIdle ==
    /\ ppc = "idle" /\ started = <<>> /\ available = {}
    /\ ending = "" /\ exit_status = -1

AssIdle == segments = <<>> /\ apc = "idle" /\ ass_file = <<>>

KaraIdle ==
    /\ orig_text = <<>> /\ new_line = <<>> /\ fallback_cs = 0 /\ kpc = "idle"
    /\ durations = <<>> /\ chars = <<>> /\ total_k = 0 /\ kara_text = <<>>

InitKara ==
    /\ orig_text \in OrigTexts
    /\ new_line \in NewLines
    /\ fallback_cs \in FallbacksOf(orig_text)
    /\ kpc = "input"
    /\ durations = <<>>
    /\ chars = <<>>
    /\ total_k = 0
    /\ kara_text = <<>>
    /\ AssIdle /\ CodecIdle /\ MainIdle /\ TimeIdle /\ PipeIdle

\* the example text and a replacement line of up to MaxExample characters
InitExample ==
    /\ orig_text = ExampleText
    /\ new_line \in ExampleLines
    /\ fallback_cs \in Fallbacks
    /\ kpc = "input"
    /\ durations = <<>>
    /\ chars = <<>>
    /\ total_k = 0
    /\ kara_text = <<>>
    /\ AssIdle /\ CodecIdle /\ MainIdle /\ TimeIdle /\ PipeIdle

\* parse_k_blocks and extract_total_k take no lyric line: they are applied in
\* the states that hold none
ParseKBlocks ==
    /\ kpc = "input"
    /\ new_line = <<>>
    /\ durations' = parse_k_blocks(orig_text).durations
    /\ chars' = parse_k_blocks(orig_text).chars
    /\ kpc' = "parsed"
    /\ UNCHANGED <<orig_text, new_line, fallback_cs, total_k, kara_text>>
    /\ UNCHANGED <<ass_vars, codec_vars, main_vars, time_vars, pipe_vars>>

ExtractTotalK ==
    /\ kpc = "input"
    /\ new_line = <<>>
    /\ total_k' = extract_total_k(orig_text, fallback_cs)
    /\ kpc' = "totalled"
    /\ UNCHANGED <<orig_text, new_line, fallback_cs, durations, chars, kara_text>>
    /\ UNCHANGED <<ass_vars, codec_vars, main_vars, time_vars, pipe_vars>>

BuildKaraFromLyrics ==
    /\ kpc = "input"
    /\ kara_text' = build_kara_from_lyrics(new_line, orig_text, fallback_cs)
    /\ kpc' = "built"
    /\ UNCHANGED <<orig_text, new_line, fallback_cs, durations, chars, total_k>>
    /\ UNCHANGED <<ass_vars, codec_vars, main_vars, time_vars, pipe_vars>>

\* a transcription of up to MaxSegs segments
InitLayout ==
    /\ segments \in { MakeSegs(sh) : sh \in ShapeSeqs }
    /\ apc = "input"
    /\ ass_file = <<>>
    /\ KaraIdle /\ CodecIdle /\ MainIdle /\ TimeIdle /\ PipeIdle

\* a transcription of one segment with up to MaxWords timed words
InitWords ==
    /\ segments \in { <<[start |-> 0, end |-> 500, text |-> t, words |-> ws]>> :
                          t \in WordTexts, ws \in WordLists }
    /\ apc = "input"
    /\ ass_file = <<>>
    /\ KaraIdle /\ CodecIdle /\ MainIdle /\ TimeIdle /\ PipeIdle

GenerateAss ==
    /\ apc = "input"
    /\ ass_file' = generate_ass(segments)
    /\ apc' = "done"
    /\ UNCHANGED segments
    /\ UNCHANGED <<kara_vars, codec_vars, main_vars, time_vars, pipe_vars>>

\* main, lines 255-266, for one Dialogue line whose End is fallback_cs
\* centiseconds after its Start (before it when fallback_cs is negative): a
\* singing line holds "\k" (line 239), a lyric line is stripped and not
\* blank (line 218)
RetimeDialogue ==
    /\ kpc = "input"
    /\ has_k(orig_text)
    /\ new_line = strip(new_line) /\ new_line # <<>>
    /\ LET r == retime_dialogue(format_timestamp_ass(Max(0, -fallback_cs) * 10),
                                format_timestamp_ass(Max(0, fallback_cs) * 10),
                                orig_text, new_line)
       IN total_k' = r.total_cs /\ kara_text' = r.text
    /\ kpc' = "retimed"
    /\ UNCHANGED <<orig_text, new_line, fallback_cs, durations, chars>>
    /\ UNCHANGED <<ass_vars, codec_vars, main_vars, time_vars, pipe_vars>>

\* a record to serialize
InitRecord ==
    /\ rec \in Records
    /\ ass_line = <<>>
    /\ split_out = [ok |-> FALSE, d |-> dialogue_dict(<<>>, EmptyFields)]
    /\ reline = <<>>
    /\ cpc = "record"
    /\ KaraIdle /\ AssIdle /\ MainIdle /\ TimeIdle /\ PipeIdle

\* a line to split
InitLine ==
    /\ rec = dialogue_dict(<<>>, EmptyFields)
    /\ ass_line \in Lines
    /\ split_out = [ok |-> FALSE, d |-> dialogue_dict(<<>>, EmptyFields)]
    /\ reline = <<>>
    /\ cpc = "line"
    /\ KaraIdle /\ AssIdle /\ MainIdle /\ TimeIdle /\ PipeIdle

RebuildDialogue ==
    /\ \/ /\ cpc = "record"
          /\ ass_line' = rebuild_dialogue(rec)
          /\ cpc' = "serialized"
          /\ UNCHANGED reline
       \/ /\ cpc = "parsed"
          /\ split_out.ok
          /\ reline' = rebuild_dialogue(split_out.d)
          /\ cpc' = "reserialized"
          /\ UNCHANGED ass_line
    /\ UNCHANGED <<rec, split_out>>
    /\ UNCHANGED <<kara_vars, ass_vars, main_vars, time_vars, pipe_vars>>

SplitDialogueFields ==
    /\ cpc \in {"serialized", "line"}
    /\ split_out' = split_dialogue_fields(ass_line)
    /\ cpc' = IF cpc = "serialized" THEN "parsed" ELSE "split"
    /\ UNCHANGED <<rec, ass_line, reline>>
    /\ UNCHANGED <<kara_vars, ass_vars, main_vars, time_vars, pipe_vars>>

InitMain ==
    /\ ass_path \in AssFiles
    /\ lyrics_path \in LyricsFiles
    /\ main_out = MainIdleOut
    /\ mpc = "input"
    /\ KaraIdle /\ AssIdle /\ CodecIdle /\ TimeIdle /\ PipeIdle

Main ==
    /\ mpc = "input"
    /\ main_out' = main(ass_path, lyrics_path)
    /\ mpc' = "done"
    /\ UNCHANGED <<ass_path, lyrics_path>>
    /\ UNCHANGED <<kara_vars, ass_vars, codec_vars, time_vars, pipe_vars>>

\* a time to format
InitTime ==
    /\ seconds \in Times
    /\ stamp = <<>>
    /\ decoded = [ok |-> FALSE, value |-> 0]
    /\ tpc = "time"
    /\ KaraIdle /\ AssIdle /\ CodecIdle /\ MainIdle /\ PipeIdle

\* a text to decode
InitStamp ==
    /\ seconds = 0
    /\ stamp \in StampTexts
    /\ decoded = [ok |-> FALSE, value |-> 0]
    /\ tpc = "text"
    /\ KaraIdle /\ AssIdle /\ CodecIdle /\ MainIdle /\ PipeIdle

FormatTimestampAss ==
    /\ tpc = "time"
    /\ stamp' = format_timestamp_ass(seconds)
    /\ tpc' = "formatted"
    /\ UNCHANGED <<seconds, decoded>>
    /\ UNCHANGED <<kara_vars, ass_vars, codec_vars, main_vars, pipe_vars>>

\* ass_time_to_seconds of a formatted time ("roundtrip") or of a given text
\* ("decoded")
AssTimeToSeconds ==
    /\ tpc \in {"formatted", "text"}
    /\ decoded' = ass_time_to_seconds(stamp)
    /\ tpc' = IF tpc = "formatted" THEN "roundtrip" ELSE "decoded"
    /\ UNCHANGED <<seconds, stamp>>
    /\ UNCHANGED <<kara_vars, ass_vars, codec_vars, main_vars, pipe_vars>>

\* a transcription whose file is corrected afterwards: segment i starts at
\* (i - 1) / 8 s and is of one of three kinds: sung for 1/8 s, with a text
\* but without span, or blank; its text is "s" and the number i
ChainKinds == {"sung", "no_span", "blank"}

ChainSegs(kinds) ==
    [i \in 1..Len(kinds) |->
        [start |-> 125 * (i - 1),
         end |-> IF kinds[i] = "no_span" THEN 125 * (i - 1) ELSE 125 * i,
         text |-> IF kinds[i] = "blank" THEN <<" ">> ELSE <<"s">> \o NatStr(i),
         words |-> <<>>]]

InitChain ==
    /\ segments \in { ChainSegs(kinds) :
                        kinds \in UNION { [1..n -> ChainKinds] :
                                          n \in 0..MaxChain } }
    /\ apc = "input"
    /\ ass_file = <<>>
    /\ ass_path = NoFile /\ lyrics_path = NoFile
    /\ main_out = MainIdleOut /\ mpc = "waiting"
    /\ KaraIdle /\ CodecIdle /\ TimeIdle /\ PipeIdle

\* a lyrics file of n lines, the i-th line being the number i
NumberedLyrics(n) == [i \in 1..n |-> NatStr(i) \o <<"\n">>]

\* fix_ass_with_lyrics.py is run on the file that generate_ass wrote, with
\* a lyrics file of one line per singing event of that file
CorrectGenerated ==
    /\ apc = "done"
    /\ mpc = "waiting"
    /\ ass_path' = [exists |-> TRUE, lines |-> written_lines(ass_file)]
    /\ lyrics_path' =
           [exists |-> TRUE,
            lines |-> NumberedLyrics(
                          Len(SelectSeq(ass_file.events,
                                        LAMBDA e : has_k(e.text))))]
    /\ mpc' = "input"
    /\ UNCHANGED main_out
    /\ UNCHANGED <<kara_vars, ass_vars, codec_vars, time_vars, pipe_vars>>

\* main.py is started
InitPipeline ==
    /\ ppc = "setup"
    /\ started = <<>>
    /\ available = {}
    /\ ending = ""
    /\ exit_status = -1
    /\ KaraIdle /\ AssIdle /\ CodecIdle /\ MainIdle /\ TimeIdle

\* lines 124-140: banner, configuration, logging, the input of the user
\* and the folders
GetUserInput ==
    /\ ppc = "setup"
    /\ \E outcome \in Outcomes :
          /\ ppc' = next_position(0, outcome)
          /\ available' = IF outcome = "returns" THEN SetupResults
                          ELSE available
          /\ ending' = IF outcome = "returns" THEN ending
                       ELSE ending_of(outcome)
          /\ exit_status' = IF outcome = "returns" THEN exit_status
                            ELSE exit_status_of(outcome)
    /\ UNCHANGED started
    /\ UNCHANGED <<kara_vars, ass_vars, codec_vars, main_vars, time_vars>>

\* the k-th stage is called; when it returns its results are assigned, when
\* it raises the except clauses end the process; the return of the last
\* stage is followed by the report of lines 239-253 and the normal end
RunStage(k) ==
    /\ ppc = Stages[k]
    /\ started' = Append(started, Stages[k])
    /\ \E outcome \in Outcomes :
          LET last == outcome # "returns" \/ k = Len(Stages)
          IN /\ ppc' = next_position(k, outcome)
             /\ available' = IF outcome = "returns"
                             THEN available \cup StageResults(Stages[k])
                             ELSE available
             /\ ending' = IF last THEN ending_of(outcome) ELSE ending
             /\ exit_status' = IF last THEN exit_status_of(outcome)
                               ELSE exit_status
    /\ UNCHANGED <<kara_vars, ass_vars, codec_vars, main_vars, time_vars>>

GetMedia == RunStage(1)

ExtractAudio == RunStage(2)

SeparateVocals == RunStage(3)

CreateKtvStereoMix == RunStage(4)

GenerateSubtitles == RunStage(5)

CreateVideoWithAudio == RunStage(6)

Init ==
    \/ InitKara
    \/ InitExample
    \/ InitLayout
    \/ InitWords
    \/ InitRecord
    \/ InitLine
    \/ InitMain
    \/ InitTime
    \/ InitStamp
    \/ InitPipeline
    \/ InitChain

Next ==
    \/ ParseKBlocks
    \/ ExtractTotalK
    \/ BuildKaraFromLyrics
    \/ RetimeDialogue
    \/ GenerateAss
    \/ RebuildDialogue
    \/ SplitDialogueFields
    \/ Main
    \/ FormatTimestampAss
    \/ AssTimeToSeconds
    \/ CorrectGenerated
    \/ GetUserInput
    \/ GetMedia
    \/ ExtractAudio
    \/ SeparateVocals
    \/ CreateKtvStereoMix
    \/ GenerateSubtitles
    \/ CreateVideoWithAudio

Spec == Init /\ [][Next]_vars

(***************************************************************************)
(* Vocabulary of the properties                                            *)
(***************************************************************************)
\* the stripped replacement line and the exploded original line
NewStripped == strip(new_line)

Exploded == parse_k_blocks(orig_text)

\* build_kara_from_lyrics maps 1:1 / redistributes a total
MapsOneToOne ==
    Exploded.durations # <<>> /\ Len(Exploded.chars) = Len(NewStripped)

Redistributes == NewStripped # <<>> /\ ~MapsOneToOne

\* the total that the redistribution branch spreads
RedistTotal ==
    Max(1, IF Exploded.durations # <<>>
           THEN SumSeq(Exploded.durations) ELSE fallback_cs)

\* number of characters that follow the i-th tag of text, up to the next tag
RunLen(text, i) ==
    LET ms == k_finditer(text)
    IN (IF i < Len(ms) THEN ms[i + 1].start ELSE Len(text) + 1) - ms[i].end

AllRunsNonEmpty(text) ==
    \A i \in 1..Len(k_finditer(text)) : RunLen(text, i) >= 1

\* every tag lasts at least one centisecond per character of its run
AllRunsFit(text) ==
    \A i \in 1..Len(k_finditer(text)) : RunLen(text, i) <= k_finditer(text)[i].k

\* every tag carries a positive duration
AllTagsPositive(text) ==
    \A i \in 1..Len(k_findall(text)) : k_findall(text)[i] >= 1

\* a segment that generate_ass does not skip
IsSung(seg) == strip(seg.text) # <<>> /\ seg.end > seg.start

\* positions of the segments that are not skipped, in order
SungIdx == SelectSeq([p \in 1..Len(segments) |-> p],
                     LAMBDA p : IsSung(segments[p]))

\* whether the pair (segment p, segment p+1) has a preview span to show
HasPreview(p) ==
    /\ strip(segments[p + 1].text) # <<>>
    /\ Max(segments[p].end, segments[p + 1].start) > segments[p].start

PreviewIdx == SelectSeq([p \in 1..(Len(segments) - 1) |-> p], HasPreview)

IsSingEvent(e) == e.style \in {"SingLeft", "SingRight"}

IsNextEvent(e) == e.style \in {"NextLeft", "NextRight"}

SingEvs == SelectSeq(ass_file.events, IsSingEvent)

NextEvs == SelectSeq(ass_file.events, IsNextEvent)

\* a time of the input (milliseconds) as the centiseconds a timestamp shows
ShownCs(ms) == [ok |-> TRUE, value |-> ms \div 10]

\* text as one duration tag per character
Tagged(ds, cs) == Concat([i \in 1..Len(cs) |-> k_tag(ds[i]) \o <<cs[i]>>])

\* sum over the words of a segment of the whole centiseconds of each word,
\* at least 1 for each
WordsTotal(words) ==
    SumSeq([i \in 1..Len(words) |->
               Max(1, TruncDiv(words[i].end - words[i].start, 10))])

\* ds spreads total over n characters: n durations, all but the last equal
\* to the integer quotient (at least 1), the sum equal to max(total, n)
Spreads(ds, total, n) ==
    /\ Len(ds) = n
    /\ \A i \in 1..n : ds[i] >= 1
    /\ \A i \in 1..(n - 1) : ds[i] = Max(1, total \div n)
    /\ SumSeq(ds) = Max(total, n)

(***************************************************************************)
(* C1  Redistribution invariant: a total >= 1 spread over n >= 1           *)
(* characters, by the fallback branch of build_kara_from_lyrics and by     *)
(* build_karaoke_text, yields durations that are all >= 1 and sum to       *)
(* exactly max(total, n).                                                  *)
(***************************************************************************)
C1_Redistribution ==
    /\ (kpc = "built" /\ Redistributes) =>
          LET ds == k_findall(kara_text)
              n == Len(NewStripped)
          IN /\ Len(ds) = n
             /\ \A i \in 1..n : ds[i] >= 1
             /\ SumSeq(ds) = Max(RedistTotal, n)
    /\ apc = "done" =>
          /\ Len(SingEvs) = Len(SungIdx)
          /\ \A k \in 1..Len(SungIdx) :
                LET seg == segments[SungIdx[k]]
                    n == Len(strip(seg.text))
                    total == IF seg.words # <<>> THEN WordsTotal(seg.words)
                             ELSE DefaultCharCs * n
                    ds == k_findall(SingEvs[k].text)
                IN /\ Len(ds) = n
                   /\ \A i \in 1..n : ds[i] >= 1
                   /\ SumSeq(ds) = Max(total, n)

\* a total of 10 is spread over 3 characters (3, 3, 4)
C1_Witness ==
    /\ kpc = "built" /\ Redistributes
    /\ RedistTotal = 10 /\ Len(NewStripped) = 3
    /\ k_findall(kara_text) = <<3, 3, 4>>

C3_ExactFidelity ==
    (kpc = "built" /\ Len(NewStripped) = Len(Exploded.chars)) =>
        kara_text = Tagged(Exploded.durations, NewStripped)

\* two characters mapped onto the unequal durations 10, 3 from a line that
\* is stripped first
C3_Witness ==
    /\ kpc = "built"
    /\ Exploded.durations = <<10, 3>>
    /\ Len(NewStripped) = 2 /\ Len(new_line) = 3
    /\ k_findall(kara_text) = <<10, 3>>

C5_NoGapCoverage ==
    apc = "done" =>
        \A p \in 1..(Len(segments) - 1) :
            (IsSung(segments[p]) /\ IsSung(segments[p + 1])) =>
                \E k \in 1..Len(NextEvs) :
                    /\ ass_time_to_seconds(NextEvs[k].start)
                           = ShownCs(segments[p].start)
                    /\ ass_time_to_seconds(NextEvs[k].end)
                           = ShownCs(Max(segments[p].end, segments[p + 1].start))
                    /\ NextEvs[k].text = strip(segments[p + 1].text)
                    /\ (p + 2 <= Len(segments) /\ IsSung(segments[p + 2])) =>
                          /\ k + 1 <= Len(NextEvs)
                          /\ ass_time_to_seconds(NextEvs[k + 1].start)
                                 = ShownCs(segments[p + 1].start)
                          /\ ass_time_to_seconds(NextEvs[k + 1].start).value
                                 <= ass_time_to_seconds(NextEvs[k].end).value

\* three sung segments, silence between the first and the second: the first
\* preview lasts until the second segment starts
C5_Witness ==
    /\ apc = "done"
    /\ Len(segments) = 3
    /\ \A p \in 1..3 : IsSung(segments[p])
    /\ segments[2].start > segments[1].end
    /\ Len(NextEvs) = 2
    /\ NextEvs[1].end = NextEvs[2].start

(***************************************************************************)
(* C6  Singing events: generate_ass emits exactly one singing event for    *)
(* every segment whose stripped text is not empty and whose end > start,   *)
(* in order, with the segment's own start and end as its span and style    *)
(* SingLeft at an even index, SingRight at an odd index of the input; it   *)
(* emits none for the other segments, whatever preview events exist.       *)
(***************************************************************************)
C6_SingingEvents ==
    apc = "done" =>
        /\ Len(SingEvs) = Len(SungIdx)
        /\ \A k \in 1..Len(SungIdx) :
              LET p == SungIdx[k]
              IN /\ ass_time_to_seconds(SingEvs[k].start)
                        = ShownCs(segments[p].start)
                 /\ ass_time_to_seconds(SingEvs[k].end)
                        = ShownCs(segments[p].end)
                 /\ SingEvs[k].style
                        = IF (p - 1) % 2 = 0 THEN "SingLeft" ELSE "SingRight"

\* a skipped segment between two sung ones, and a preview event over the
\* interval of a singing event
C6_Witness ==
    /\ apc = "done"
    /\ Len(segments) = 3
    /\ SungIdx = <<1, 3>>
    /\ segments[2].end <= segments[2].start
    /\ strip(segments[2].text) # <<>>
    /\ Len(SingEvs) = 2
    /\ \E k \in 1..Len(NextEvs) :
          NextEvs[k].start = SingEvs[1].start /\ NextEvs[k].end = SingEvs[1].end

(***************************************************************************)
(* C7  Preview events: for every adjacent pair (segment p, segment p+1)    *)
(* generate_ass emits one preview event, in order, that carries the        *)
(* stripped text of segment p+1 without any duration tag, spans            *)
(* [segment[p].start, max(segment[p].end, segment[p+1].start)] and has     *)
(* style NextLeft when the index of segment p+1 is even, NextRight when it *)
(* is odd; the event is omitted exactly when that span is not positive or  *)
(* the stripped text is empty.                                             *)
(***************************************************************************)
C7_PreviewEvents ==
    apc = "done" =>
        /\ Len(NextEvs) = Len(PreviewIdx)
        /\ \A k \in 1..Len(PreviewIdx) :
              LET p == PreviewIdx[k]
              IN /\ NextEvs[k].text = strip(segments[p + 1].text)
                 /\ k_findall(NextEvs[k].text) = <<>>
                 /\ ass_time_to_seconds(NextEvs[k].start)
                        = ShownCs(segments[p].start)
                 /\ ass_time_to_seconds(NextEvs[k].end)
                        = ShownCs(Max(segments[p].end, segments[p + 1].start))
                 /\ NextEvs[k].style
                        = IF p % 2 = 0 THEN "NextLeft" ELSE "NextRight"

\* one pair without a span (omitted), one pair with silence before the next
\* segment (emitted, NextLeft)
C7_Witness ==
    /\ apc = "done"
    /\ Len(segments) = 3
    /\ PreviewIdx = <<2>>
    /\ strip(segments[2].text) # <<>>
    /\ segments[3].start > segments[2].end
    /\ Len(NextEvs) = 1
    /\ NextEvs[1].style = "NextLeft"

C9_NoWords_Claimed ==
    apc = "done" =>
        /\ Len(SingEvs) = Len(SungIdx)
        /\ \A k \in 1..Len(SungIdx) :
              LET seg == segments[SungIdx[k]]
              IN seg.words = <<>> => SingEvs[k].text = strip(seg.text)

(***************************************************************************)
(* C9  amended: when the word list of a segment is empty, the text of the  *)
(* singing event is the segment's stripped text with a duration tag of 30  *)
(* centiseconds before each character.                                     *)
(***************************************************************************)
C9_NoWords ==
    apc = "done" =>
        /\ Len(SingEvs) = Len(SungIdx)
        /\ \A k \in 1..Len(SungIdx) :
              LET seg == segments[SungIdx[k]]
                  cs == strip(seg.text)
              IN seg.words = <<>> =>
                    SingEvs[k].text = Tagged([i \in 1..Len(cs) |-> 30], cs)

\* a segment "abc" without words
C9_Witness ==
    /\ apc = "done"
    /\ Len(segments) = 1
    /\ segments[1].words = <<>>
    /\ Len(SingEvs) = 1
    /\ k_findall(SingEvs[1].text) = <<30, 30, 30>>

(***************************************************************************)
(* C10  At most two lines on screen: at every instant at most two of the   *)
(* events written by generate_ass are active (start <= t < end).  The      *)
(* number of active events only grows at the start of an event, so the     *)
(* starts are the instants to look at.  (Stated for transcriptions whose   *)
(* segments all have end > start and start in strictly increasing order.)  *)
(***************************************************************************)
\* C10 is stated for the transcriptions in which
\* every segment has a positive span and starts after the previous one
Chronological ==
    /\ \A p \in 1..Len(segments) : segments[p].end > segments[p].start
    /\ \A p \in 1..(Len(segments) - 1) :
          segments[p + 1].start > segments[p].start

ActiveAt(t) ==
    { i \in 1..Len(ass_file.events) :
        /\ ass_time_to_seconds(ass_file.events[i].start).value <= t
        /\ t < ass_time_to_seconds(ass_file.events[i].end).value }

C10_AtMostTwoLines ==
    (apc = "done" /\ Chronological) =>
        \A i \in 1..Len(ass_file.events) :
            Cardinality(
                ActiveAt(ass_time_to_seconds(ass_file.events[i].start).value))
            <= 2

(***************************************************************************)
(* Vocabulary of the properties of the record codec                        *)
(***************************************************************************)
HasChar(t, c) == \E i \in 1..Len(t) : t[i] = c

\* the nine fields before the text hold no comma
NineNoComma(d) ==
    \A i \in 1..9 : ~HasChar(dialogue_fields(d)[i], ",")

\* the field list of a line: what follows its first colon, without the
\* blanks and the line end around it
FieldList(ln) ==
    LET c == CHOOSE k \in 1..Len(ln) :
                 ln[k] = ":" /\ \A l \in 1..(k - 1) : ln[l] # ":"
    IN strip(SubSeq(ln, c + 1, Len(ln)))

\* what precedes the first colon of a line
BeforeColon(ln) ==
    LET c == CHOOSE k \in 1..Len(ln) :
                 ln[k] = ":" /\ \A l \in 1..(k - 1) : ln[l] # ":"
    IN SubSeq(ln, 1, c - 1)

\* positions of the commas of a field list, in order
CommaPos(fl) == SelectSeq([i \in 1..Len(fl) |-> i], LAMBDA i : fl[i] = ",")

\* the i-th of the ten fields of a field list: it starts after comma i-1; it
\* ends before comma i, or for the tenth field where the list ends; a field
\* that the list does not hold is empty
FieldOf(fl, i) ==
    LET cp == CommaPos(fl)
        first == IF i = 1 THEN 1 ELSE cp[i - 1] + 1
        last == IF i <= 9 /\ i <= Len(cp) THEN cp[i] - 1 ELSE Len(fl)
    IN IF i > Len(cp) + 1 THEN <<>> ELSE SubSeq(fl, first, last)

(***************************************************************************)
(* C11  Record round-trip, as claimed: for any record whose first nine     *)
(* fields hold no comma, split_dialogue_fields(rebuild_dialogue(r)) equals *)
(* r field for field, and rebuilding that result gives rebuild_dialogue(r) *)
(* again.  (Stated for records whose prefix holds no colon.)               *)
(***************************************************************************)
C11_RoundTrip_Claimed ==
    (/\ cpc \in {"parsed", "reserialized"}
     /\ ~HasChar(rec.prefix, ":") /\ NineNoComma(rec)) =>
        /\ split_out.ok
        /\ split_out.d = rec
        /\ cpc = "reserialized" => reline = ass_line

(***************************************************************************)
(* C11  Record round-trip, amended: for any record whose prefix holds no   *)
(* colon, whose first nine fields hold no comma, whose layer does not      *)
(* start with white space and whose text does not end with white space,    *)
(* split_dialogue_fields(rebuild_dialogue(r)) equals r field for field,    *)
(* and rebuilding that result gives rebuild_dialogue(r) again.             *)
(***************************************************************************)
C11_RoundTrip ==
    (/\ cpc \in {"parsed", "reserialized"}
     /\ ~HasChar(rec.prefix, ":") /\ NineNoComma(rec)
     /\ (rec.layer = <<>> \/ Head(rec.layer) \notin Whitespace)
     /\ (rec.text = <<>> \/ rec.text[Len(rec.text)] \notin Whitespace)) =>
        /\ split_out.ok
        /\ split_out.d = rec
        /\ cpc = "reserialized" => reline = ass_line

\* a record of an indented line, a comma in its text and blanks inside two
\* fields, serialized, split and serialized again
C11_Witness ==
    /\ cpc = "reserialized"
    /\ rec.prefix = <<" ">> \o Keyword
    /\ rec.layer = <<"0">>
    /\ rec.effect = <<"e", " ">>
    /\ rec.text = <<"a", ",", "b">>
    /\ split_out.d = rec
    /\ reline = ass_line

IsEventLine(ln) ==
    LET t == lstrip(ln)
    IN Len(t) >= 9 /\ SubSeq(t, 1, 8) = Keyword /\ t[9] = ":"

\* the events of a document, in document order
EventsOf(lines) ==
    LET idx == SelectSeq([i \in 1..Len(lines) |-> i],
                         LAMBDA i : IsEventLine(lines[i]))
    IN [k \in 1..Len(idx) |-> split_dialogue_fields(lines[idx[k]]).d]

InEvents == EventsOf(ass_path.lines)

OutEvents == EventsOf(main_out.out.lines)

\* the replacement lines: the lines of the lyrics file that are not blank,
\* without the white space around them
Lyrics ==
    SelectSeq([i \in 1..Len(lyrics_path.lines) |-> strip(lyrics_path.lines[i])],
              LAMBDA l : l # <<>>)

\* a text that holds a duration tag, as the run decides it: it holds the
\* two characters \k that start the tag
HoldsK(text) ==
    \E i \in 1..(Len(text) - 1) : text[i] = "\\" /\ text[i + 1] = "k"

\* the tagged (singing) events and the untagged (preview) events of the
\* input document, as positions in InEvents
TaggedIn(evs) ==
    SelectSeq([k \in 1..Len(evs) |-> k], LAMBDA k : HoldsK(evs[k].text))

UntaggedIn(evs) ==
    SelectSeq([k \in 1..Len(evs) |-> k], LAMBDA k : ~HoldsK(evs[k].text))

TaggedIdx == TaggedIn(InEvents)

UntaggedIdx == UntaggedIn(InEvents)

\* a run that got its two files
RunOpens == mpc = "done" /\ ass_path.exists /\ lyrics_path.exists

\* a run that got its two files and at least one replacement line
RunReads == RunOpens /\ Lyrics # <<>>

\* the number of pairs of a tagged event and a replacement line
Pairs(ti, ly) == IF Len(ti) <= Len(ly) THEN Len(ti) ELSE Len(ly)

PairCount == Pairs(TaggedIdx, Lyrics)

\* Start and End of the paired events are timestamps
TimesOk(evs, ti, n) ==
    \A k \in 1..n :
        /\ ass_time_to_seconds(evs[ti[k]].start).ok
        /\ ass_time_to_seconds(evs[ti[k]].end).ok

PairedTimesOk == TimesOk(InEvents, TaggedIdx, PairCount)

Printed(m) == \E i \in 1..Len(main_out.printed) : main_out.printed[i].msg = m

(***************************************************************************)
(* C13  Non-event lines, as claimed: parsing a line whose prefix is not    *)
(* the keyword Dialogue ends in an error instead of returning a record.    *)
(***************************************************************************)
C13_NotAnEventLine_Claimed ==
    (cpc = "split" /\ ~IsEventLine(ass_line)) => ~split_out.ok

(***************************************************************************)
(* C13  Non-event lines, amended: split_dialogue_fields does not check the *)
(* keyword: it returns a record for every line that holds a colon, with    *)
(* what precedes the first colon as prefix, and raises an error            *)
(* (ValueError) exactly for the lines without a colon.  The scan of main   *)
(* hands it only the lines that start, after leading white space, with     *)
(* "Dialogue:"; every other line is passed over: it stays at its place in  *)
(* the output, unchanged, and is not counted among the tagged events.      *)
(***************************************************************************)
C13_NotAnEventLine ==
    /\ cpc = "split" =>
          /\ split_out.ok <=> HasChar(ass_line, ":")
          /\ split_out.ok => split_out.d.prefix = BeforeColon(ass_line)
    /\ (mpc = "done" /\ main_out.out.exists) =>
          /\ Len(main_out.out.lines) = Len(ass_path.lines)
          /\ \A i \in 1..Len(ass_path.lines) :
                ~IsEventLine(ass_path.lines[i]) =>
                    main_out.out.lines[i] = ass_path.lines[i]
          /\ LET n_sing == Len(TaggedIdx)
             IN \A i \in 1..Len(main_out.printed) :
                    main_out.printed[i].msg = "mismatch" =>
                        main_out.printed[i].n_sing = n_sing

\* a Comment line whose text holds a tag, before the one singing line: it is
\* copied, and one replacement line matches the count of tagged events
C13_Witness ==
    /\ mpc = "done"
    /\ ass_path.lines = <<CommentLine, SingLine>>
    /\ Len(Lyrics) = 1
    /\ main_out.out.exists
    /\ main_out.out.lines[1] = CommentLine
    /\ main_out.out.lines[2] # SingLine
    /\ ~Printed("mismatch")

C15_PreviewRewrite_Claimed ==
    RunOpens =>
        LET ie == InEvents
            oe == OutEvents
            ti == TaggedIn(ie)
            ui == UntaggedIn(ie)
            ly == Lyrics
        IN (ly # <<>> /\ TimesOk(ie, ti, Pairs(ti, ly))) =>
              /\ \A i \in 1..Len(ui) :
                    i <= Len(ly) - 1 =>
                        /\ main_out.out.exists
                        /\ Len(oe) = Len(ie)
                        /\ oe[ui[i]].text = ly[i + 1]
              /\ main_out.out.exists =>
                    /\ Len(oe) = Len(ie)
                    /\ \A i \in 1..Len(ui) :
                          i > Len(ly) - 1 => oe[ui[i]].text = ie[ui[i]].text

(***************************************************************************)
(* C15  Preview rewrite, amended: the same, in a run over a document that  *)
(* has at least one tagged event; without one the run rewrites nothing     *)
(* and writes no output.                                                   *)
(***************************************************************************)
C15_PreviewRewrite ==
    RunOpens =>
        LET ie == InEvents
            oe == OutEvents
            ti == TaggedIn(ie)
            ui == UntaggedIn(ie)
            ly == Lyrics
        IN /\ (ly # <<>> /\ ti # <<>> /\ TimesOk(ie, ti, Pairs(ti, ly))) =>
                 /\ main_out.out.exists
                 /\ Len(oe) = Len(ie)
                 /\ \A i \in 1..Len(ui) :
                       oe[ui[i]].text =
                           IF i <= Len(ly) - 1 THEN ly[i + 1]
                           ELSE ie[ui[i]].text
           /\ (ly # <<>> /\ ti = <<>>) => ~main_out.out.exists

\* one singing line and two preview lines, two replacement lines: the first
\* preview line shows the second replacement line, the second keeps its text
C15_Witness ==
    /\ RunReads
    /\ ass_path.lines = <<SingLine, PreviewLine, ShortLine>>
    /\ Len(Lyrics) = 2 /\ Lyrics[1] # Lyrics[2]
    /\ main_out.out.exists
    /\ OutEvents[2].text = Lyrics[2]
    /\ OutEvents[3].text = <<>>

RunChars(text, i) ==
    LET e == k_finditer(text)[i].end
    IN SubSeq(text, e, e + RunLen(text, i) - 1)

\* a duration d divided over n >= 1 characters by integer division, the rest
\* given to the last one
Divided(d, n) ==
    [j \in 1..n |-> IF j < n THEN d \div n ELSE d - (d \div n) * (n - 1)]

\* the same with the floors of the code: every share is at least 1
DividedFloored(d, n) ==
    [j \in 1..n |-> IF j < n THEN Max(1, d \div n)
                    ELSE Max(1, d - Max(1, d \div n) * (n - 1))]

C18_ExtractTotal ==
    kpc = "totalled" =>
        /\ total_k \in Int
        /\ total_k =
              IF /\ Len(k_finditer(orig_text)) >= 1
                 /\ SumSeq([i \in 1..Len(k_finditer(orig_text)) |->
                               k_finditer(orig_text)[i].k]) > 0
              THEN SumSeq([i \in 1..Len(k_finditer(orig_text)) |->
                              k_finditer(orig_text)[i].k])
              ELSE fallback_cs

\* two tags of 0 centiseconds: the fallback is returned
C18_Witness ==
    /\ kpc = "totalled"
    /\ k_findall(orig_text) = <<0, 0>>
    /\ fallback_cs = 5
    /\ total_k = 5

(***************************************************************************)
(* C19  Minimum duration: every duration that parse_k_blocks returns, and  *)
(* every duration tag of a text written by build_kara_from_lyrics (for any *)
(* original text and any fallback, 0 and negative included, called         *)
(* directly or by main) or of a singing event written by generate_ass (for *)
(* any word list, words with end <= start included) is at least 1          *)
(* centisecond; each of these texts is one such tag before each character. *)
(***************************************************************************)
C19_MinimumDuration ==
    /\ kpc = "parsed" => \A i \in 1..Len(durations) : durations[i] >= 1
    /\ kpc \in {"built", "retimed"} =>
          LET ds == k_findall(kara_text)
          IN /\ kara_text = Tagged(ds, NewStripped)
             /\ Len(ds) = Len(NewStripped)
             /\ \A i \in 1..Len(ds) : ds[i] >= 1
    /\ apc = "done" =>
          /\ Len(SingEvs) = Len(SungIdx)
          /\ \A k \in 1..Len(SungIdx) :
                LET cs == strip(segments[SungIdx[k]].text)
                    ds == k_findall(SingEvs[k].text)
                IN /\ SingEvs[k].text = Tagged(ds, cs)
                   /\ Len(ds) = Len(cs)
                   /\ \A i \in 1..Len(ds) : ds[i] >= 1
    /\ (mpc = "done" /\ main_out.out.exists) =>
          LET oe == OutEvents
              ti == TaggedIdx
              ly == Lyrics
          IN \A k \in 1..Pairs(ti, ly) :
                 LET t == oe[ti[k]].text
                     ds == k_findall(t)
                 IN /\ t = Tagged(ds, ly[k])
                    /\ Len(ds) = Len(ly[k])
                    /\ \A i \in 1..Len(ds) : ds[i] >= 1

\* a negative fallback spread over two characters of a text without tags
C19_Witness ==
    /\ kpc = "built"
    /\ fallback_cs < 0
    /\ Exploded.durations = <<>>
    /\ Len(NewStripped) = 2
    /\ k_findall(kara_text) = <<1, 1>>

StampShape(t) ==
    LET n == Len(t)
    IN /\ n >= 10
       /\ t[n - 2] = "." /\ t[n - 5] = ":" /\ t[n - 8] = ":"
       /\ \A i \in 1..n : i \notin {n - 2, n - 5, n - 8} => IsDigit(t[i])

StyleNames ==
    { <<"S", "i", "n", "g", "L", "e", "f", "t">>,
      <<"S", "i", "n", "g", "R", "i", "g", "h", "t">>,
      <<"N", "e", "x", "t", "L", "e", "f", "t">>,
      <<"N", "e", "x", "t", "R", "i", "g", "h", "t">> }

\* a line that holds one event: the keyword, a colon, and ten fields, the
\* first nine being layer 0, two timestamps, a style, an empty name, three
\* margins of 0 and an empty effect
EventLineShape(ln) ==
    /\ Len(ln) >= 10
    /\ SubSeq(ln, 1, 10) = <<"D", "i", "a", "l", "o", "g", "u", "e", ":", " ">>
    /\ ln[Len(ln)] = "\n"
    /\ LET fl == SubSeq(ln, 11, Len(ln) - 1)
       IN /\ Len(CommaPos(fl)) >= 9
          /\ FieldOf(fl, 1) = <<"0">>
          /\ StampShape(FieldOf(fl, 2)) /\ StampShape(FieldOf(fl, 3))
          /\ FieldOf(fl, 4) \in StyleNames
          /\ FieldOf(fl, 5) = <<>>
          /\ \A i \in 6..8 : FieldOf(fl, i) = <<"0">>
          /\ FieldOf(fl, 9) = <<>>

\* the header of a document: its lines up to the line of the field names of
\* the events; it gives the canvas resolution and four styles
HeaderShape(hd) ==
    /\ hd # <<>>
    /\ hd[Len(hd)] =
          <<"F", "o", "r", "m", "a", "t", ":", " ", "L", "a", "y", "e", "r",
            ",", " ", "S", "t", "a", "r", "t", ",", " ", "E", "n", "d", ",",
            " ", "S", "t", "y", "l", "e", ",", " ", "N", "a", "m", "e", ",",
            " ", "M", "a", "r", "g", "i", "n", "L", ",", " ", "M", "a", "r",
            "g", "i", "n", "R", ",", " ", "M", "a", "r", "g", "i", "n", "V",
            ",", " ", "E", "f", "f", "e", "c", "t", ",", " ", "T", "e", "x",
            "t", "\n">>
    /\ \E i \in 1..Len(hd) :
          hd[i] = <<"P", "l", "a", "y", "R", "e", "s", "X", ":", " ", "1", "2", "8", "0", "\n">>
    /\ \E i \in 1..Len(hd) :
          hd[i] = <<"P", "l", "a", "y", "R", "e", "s", "Y", ":", " ", "7", "2", "0", "\n">>
    /\ Cardinality({ i \in 1..Len(hd) :
                       Len(hd[i]) >= 6
                       /\ SubSeq(hd[i], 1, 6) = <<"S", "t", "y", "l", "e", ":">> }) = 4

\* the number of line breaks of a text
Breaks(t) == Cardinality({ i \in 1..Len(t) : t[i] = "\n" })

\* the lines of the written document, and the number of lines of its header
DocWritten == written_lines(ass_file)

HeaderLen == Len(ass_header)

(***************************************************************************)
(* C21  Output file shape, as claimed: for every segment sequence, the     *)
(* empty one included, the written document is the fixed header followed   *)
(* by one line per event, each line an event line of ten fields.           *)
(***************************************************************************)
C21_FileShape_Claimed ==
    apc = "done" =>
        LET ls == DocWritten
        IN /\ Len(ls) = HeaderLen + Len(ass_file.events)
           /\ SubSeq(ls, 1, HeaderLen) = ass_header
           /\ HeaderShape(SubSeq(ls, 1, HeaderLen))
           /\ \A i \in (HeaderLen + 1)..Len(ls) : EventLineShape(ls[i])

(***************************************************************************)
(* C21  Output file shape, amended: for the empty segment sequence the     *)
(* written document is empty (no header).  For every other sequence, the   *)
(* sequences in which every segment is skipped included, it is the fixed   *)
(* header followed by the events in the order they were written; an event  *)
(* takes one line more than its text has line breaks, and when no text has *)
(* a line break every line after the header is an event line of ten        *)
(* fields, one per event.                                                  *)
(***************************************************************************)
C21_FileShape ==
    apc = "done" =>
        LET ls == DocWritten
            evs == ass_file.events
        IN IF segments = <<>> THEN ls = <<>>
           ELSE /\ SubSeq(ls, 1, HeaderLen) = ass_header
                /\ HeaderShape(SubSeq(ls, 1, HeaderLen))
                /\ Len(ls) = HeaderLen + Len(evs)
                      + SumSeq([k \in 1..Len(evs) |-> Breaks(evs[k].text)])
                /\ (\A k \in 1..Len(evs) : Breaks(evs[k].text) = 0) =>
                      \A k \in 1..Len(evs) :
                          /\ EventLineShape(ls[HeaderLen + k])
                          /\ FieldOf(SubSeq(ls[HeaderLen + k], 11,
                                            Len(ls[HeaderLen + k]) - 1), 10)
                                = evs[k].text

\* three segments, every one of them skipped: the document is the header
C21_Witness ==
    /\ apc = "done"
    /\ Len(segments) = 3
    /\ ass_file.events = <<>>
    /\ DocWritten = ass_header

(***************************************************************************)
(* Vocabulary of the properties of the time codec                          *)
(***************************************************************************)
\* the number written in the two characters of t that end k before its end
TwoDigitsAt(t, k) == DigitsVal(SubSeq(t, Len(t) - k - 1, Len(t) - k))

\* seconds truncated to whole centiseconds
TruncatedCs(ms) == ms \div 10

(***************************************************************************)
(* C22  Timestamp encoding.  For every non-negative time in whole          *)
(* milliseconds format_timestamp_ass yields H:MM:SS.cc with minutes and    *)
(* seconds in 00..59 and cc the fractional part truncated to centiseconds, *)
(* and ass_time_to_seconds of the result is the time truncated down to a   *)
(* whole centisecond.                                                      *)
(***************************************************************************)
C22_Truncated ==
    tpc \in {"formatted", "roundtrip"} =>
        /\ StampShape(stamp)
        /\ TwoDigitsAt(stamp, 6) \in 0..59
        /\ TwoDigitsAt(stamp, 3) \in 0..59
        /\ TwoDigitsAt(stamp, 0) = TruncatedCs(seconds) % 100
        /\ tpc = "roundtrip" =>
              decoded.ok /\ decoded.value = TruncatedCs(seconds)

\* a component of a timestamp that is a number: decimal digits, at least one
Numeric(s) == s # <<>> /\ \A i \in 1..Len(s) : IsDigit(s[i])

\* the ways in which a text does not have the structure H:MM:SS.cc: a
\* missing ".", a wrong number of ":"-separated fields, a non-numeric
\* component, a fraction that is not exactly two digits
MalformedStamp(t) ==
    LET dot == py_split(t, ".")
        hms == py_split(dot[1], ":")
    IN \/ Len(dot) # 2
       \/ Len(hms) # 3
       \/ \E i \in 1..3 : ~Numeric(hms[i])
       \/ ~Numeric(dot[2])
       \/ Len(dot[2]) # 2

\* h*3600 + m*60 + s + cc/100 of a text of the structure H:MM:SS.cc, in
\* centiseconds
StampValueCs(t) ==
    LET n == Len(t)
    IN (DigitsVal(SubSeq(t, 1, n - 9)) * 3600 + TwoDigitsAt(t, 6) * 60
        + TwoDigitsAt(t, 3)) * 100 + TwoDigitsAt(t, 0)

(***************************************************************************)
(* C23  Timestamp decoding errors.  ass_time_to_seconds ends in an error   *)
(* for every text without the structure H:MM:SS.cc (a missing ".", a       *)
(* non-numeric component, a wrong number of ":"-separated fields, a        *)
(* fraction that is not exactly two digits), and returns                   *)
(* h*3600 + m*60 + s + cc/100 for every text with that structure.          *)
(***************************************************************************)
C23_DecodingErrors ==
    tpc = "decoded" =>
        /\ MalformedStamp(stamp) => ~decoded.ok
        /\ StampShape(stamp) =>
              decoded.ok /\ decoded.value = StampValueCs(stamp)

(***************************************************************************)
(* Vocabulary of the frame of the lyric-correction run                     *)
(***************************************************************************)
\* the prefix and the nine fields before the text of the record of a line
FrameOf(ln) ==
    LET d == split_dialogue_fields(ln).d
    IN <<d.prefix, d.layer, d.start, d.end, d.style, d.name, d.margin_l,
         d.margin_r, d.margin_v, d.effect>>

\* the events whose text the run replaces, as positions among the events:
\* the paired tagged events and the rewritten previews
Replaced(ti, ui, ly) ==
    { ti[j] : j \in 1..Pairs(ti, ly) }
    \cup { ui[j] : j \in 1..Min(Len(ui), Max(0, Len(ly) - 1)) }

\* a run that wrote its output document
RunWrites == RunOpens /\ main_out.out.exists

(***************************************************************************)
(* C24  Frame of the lyric-correction run.  The output document has as     *)
(* many lines as the input, in the same order; every line that is no       *)
(* Dialogue line is copied unchanged; of every Dialogue line the prefix    *)
(* and the nine fields before the text are unchanged; the text differs     *)
(* only for paired singing events and rewritten preview events.            *)
(***************************************************************************)
C24_Frame ==
    RunWrites =>
        LET inl == ass_path.lines
            outl == main_out.out.lines
            ie == EventsOf(inl)
            oe == EventsOf(outl)
            ly == Lyrics
            touched == Replaced(TaggedIn(ie), UntaggedIn(ie), ly)
        IN /\ Len(outl) = Len(inl)
           /\ \A i \in 1..Len(inl) :
                IF IsEventLine(inl[i])
                THEN IsEventLine(outl[i]) /\ FrameOf(outl[i]) = FrameOf(inl[i])
                ELSE outl[i] = inl[i]
           /\ Len(oe) = Len(ie)
           /\ \A k \in 1..Len(ie) :
                k \notin touched => oe[k].text = ie[k].text

\* a run over a document with a line that is no Dialogue line, an event
\* whose text it replaces and an event it leaves alone
C24_Witness ==
    /\ RunWrites
    /\ LET inl == ass_path.lines
           ie == EventsOf(inl)
           oe == EventsOf(main_out.out.lines)
           touched == Replaced(TaggedIn(ie), UntaggedIn(ie), Lyrics)
       IN /\ \E i \in 1..Len(inl) : ~IsEventLine(inl[i])
          /\ \E k \in touched : oe[k].text # ie[k].text
          /\ \E k \in 1..Len(ie) : k \notin touched

(***************************************************************************)
(* Vocabulary of the two tools run one after the other                     *)
(***************************************************************************)
\* the correction run has written its output for a file of generate_ass
GeneratedCorrected == apc = "done" /\ RunWrites

\* the number of the segments up to p that got a singing event, and of the
\* pairs (q, q + 1) up to (p - 1, p) that got a preview event
SingRank(p) == Cardinality({ q \in 1..p : IsSung(segments[q]) })

PreviewRank(p) == Cardinality({ q \in 1..(p - 1) : HasPreview(q) })

(***************************************************************************)
(* C25  Preview/singing alignment across the two tools.  For a document    *)
(* of generate_ass and a replacement list of one line per singing event,   *)
(* after the correction run every preview event shows the replacement line *)
(* that was applied to the singing event of the segment it previews.       *)
(***************************************************************************)
C25_PreviewAligned ==
    GeneratedCorrected =>
        LET oe == OutEvents
            ly == Lyrics
            n == Len(segments)
            n_sing == SingRank(n)
        IN \A p \in 2..n :
              (HasPreview(p - 1) /\ IsSung(segments[p])) =>
                  /\ parse_k_blocks(oe[SingRank(p)].text).chars
                         = ly[SingRank(p)]
                  /\ oe[n_sing + PreviewRank(p)].text = ly[SingRank(p)]

(***************************************************************************)
(* Vocabulary of the properties of the pipeline                            *)
(***************************************************************************)
\* the stage has returned: its results are there
Returned(s) == StageResults(s) \subseteq available

(***************************************************************************)
(* C26  Pipeline ordering in main.  The stages run in the order get media, *)
(* extract audio, separate vocals, create stereo mix, generate subtitles,  *)
(* create final video, each started only after the previous one returned   *)
(* its output; when a stage raises no later stage is started and the       *)
(* process ends with exit status 1 (0 on the interrupt of the user).       *)
(***************************************************************************)
C26_PipelineOrder ==
    LET n == Len(started)
    IN /\ n <= Len(Stages)
       /\ \A k \in 1..n :
            /\ started[k] = Stages[k]
            /\ StageArgs(started[k]) \subseteq available
            /\ k < n => Returned(started[k])
       /\ ending = "" =>
            /\ exit_status = -1
            /\ n >= 1 => Returned(started[n])
       /\ ending \in {"error", "cancelled"} =>
            /\ ppc = "end"
            /\ n >= 1 => ~Returned(started[n])
            /\ exit_status = IF ending = "error" THEN 1 ELSE 0
       /\ ending = "completed" =>
            /\ ppc = "end" /\ n = Len(Stages) /\ Returned(started[n])
            /\ exit_status = 0

\* the third stage has raised after two stages that returned, and the
\* process has ended with status 1
C26_Witness ==
    /\ ending = "error" /\ exit_status = 1
    /\ Len(started) = 3
    /\ Returned(started[2]) /\ ~Returned(started[3])

====
